---- MODULE Spec2Model ----
(***************************************************************************)
(* Jetstream workflow core: the Workflow graph (tasks, dependency edges,   *)
(* transactional edit, compose, resets) and the WorkflowIterator, modelled *)
(* from jetstream/workflows.py.  jetstream/tasks.py (class Task) is not    *)
(* part of the sources at hand; its operations are modelled from the       *)
(* specification text (section 4.1) and are marked as such where defined.  *)
(***************************************************************************)
EXTENDS Integers, Sequences, FiniteSets, TLC

\* ------------------------------------------------------------------ bounds

\* Longest transaction stack explored (ids staged by add_task under the lock).
MaxStack == 3

\* Most edits (add_task, remove_task, compose) made between the runs of a
\* workflow that is being run.
MaxEdits == 1

Min(x, y) == IF x < y THEN x ELSE y

\* The task ids (names) of the rendered tasks.
Tids == {"a", "b", "c"}

\* ------------------------------------------------------------- task objects

\* Task.returncode is None until the task is terminal: <<>> is None, <<rc>> is rc.
None == <<>>

\* The returncode Task.fail gives dependents it fails by propagation.
DependencyFailureCode == -12

\* Returncodes a backend reports for a failed command.
FailCodes == {2}

\* Rendered task mappings (name, cmd and dependency directives) the workflows
\* are built from.  A directive is given as a sequence (coerce_sequence).
TaskData ==
  { [name |-> "a", after |-> <<>>,     before |-> <<>>,    input |-> <<>>,    output |-> <<"f">>],
    [name |-> "a", after |-> <<"b">>,  before |-> <<>>,    input |-> <<>>,    output |-> <<>>],
    [name |-> "b", after |-> <<"a">>,  before |-> <<>>,    input |-> <<>>,    output |-> <<>>],
    [name |-> "b", after |-> <<>>,     before |-> <<>>,    input |-> <<"f">>, output |-> <<>>],
    [name |-> "c", after |-> <<"b">>,  before |-> <<>>,    input |-> <<>>,    output |-> <<>>],
    [name |-> "c", after |-> <<"b">>,  before |-> <<"a">>, input |-> <<>>,    output |-> <<>>],
    [name |-> "c", after |-> <<".*">>, before |-> <<>>,    input |-> <<>>,    output |-> <<>>] }

\* Task(data=mapping): a new task; its tid is the given name.
Task(data) ==
  [tid |-> data.name, name |-> data.name, after |-> data.after,
   before |-> data.before, input |-> data.input, output |-> data.output,
   status |-> "new", returncode |-> None]

Tasks == {Task(d) : d \in TaskData}

\* --------------------------------------------------------------- utilities

Range(s) == {s[i] : i \in DOMAIN s}

Remove(s, x) == SelectSeq(s, LAMBDA y : y # x)

\* Python's seq.pop(i), i counted from 1.
Pop(s, i) == SubSeq(s, 1, i - 1) \o SubSeq(s, i + 1, Len(s))

\* ------------------------------------------------------------------- state

VARIABLES
  nodes,      \* graph nodes (task ids) in insertion order
  obj,        \* graph node data: task id -> task object
  edges,      \* graph edges <<dependent, prerequisite>>
  locked,     \* Workflow._lock is held
  stack,      \* Workflow._stack
  txn,        \* the caller is inside the body of "with workflow:"
  entry,      \* node ids when the current transaction was entered
  itActive,   \* a WorkflowIterator is being driven by a runner
  tasks,      \* WorkflowIterator.tasks (remaining)
  pending,    \* WorkflowIterator.pending
  failedInRun,    \* tasks a backend failed since the iterator was created
  returnedInRun,  \* tasks next() returned since the iterator was created
  edits,      \* edits made to a workflow since it was first run
  last,       \* the operation that led to this state and its outcome
  backend,    \* the backend of the runner: "local", "slurm" ("none": no runner)
  directives, \* task id -> the directives a backend reads (cmd, cpus)
  sp,         \* task id -> the spawn coroutine of the task: [pc, reserved]
  proc,       \* task id -> the subprocess a local spawn created
  cpu_sem,    \* free permits of the local backend's _cpu_sem
  jobs,       \* SlurmBackend.jobs: ids of the tracked jobs
  job_data,   \* job id -> SlurmBatchJob._job_data, by its State
  scancelled, \* job ids scancel was issued for
  monitor,    \* the job_monitor coroutine: "running", "stopped", "none"
  runner,     \* the event loop: "running", "cancelling", "stopped", "none"
  sacct_stdout,   \* the rows of the last output of the sacct command
  sacct_data,     \* what parse_sacct made of the last output of sacct
  files,          \* path -> the file on disk: [exists, text]
  save_pc,        \* the position of save(): "idle", "open", "closed"
  save_text,      \* save(): the text workflow.to_yaml() returned
  sbatch_kwargs,  \* the keyword arguments of the last call of sbatch()
  sbatch_args     \* the command line the last call of sbatch() ran

backendVars == <<backend, directives, sp, proc, cpu_sem, jobs, job_data,
                 scancelled, monitor, runner>>

\* The path a workflow is saved to, as the parts of its name.
SavePath == <<"workflow.yaml">>

\* A lock path that is the path itself.
lock_path_in_place(path) == path

\* save: lock_path = path + '.lock'
lock_path(path) == Append(path, ".lock")

\* A path with no file.
NoFile == [exists |-> FALSE, text |-> <<>>]

\* What the program reads from and gives to the operating system.
osVars == <<sacct_stdout, sacct_data, files, save_pc, save_text,
            sbatch_kwargs, sbatch_args>>

vars == <<nodes, obj, edges, locked, stack, txn, entry, itActive, tasks,
          pending, failedInRun, returnedInRun, edits, last, backendVars, osVars>>

graphVars == <<nodes, obj, edges>>
lockVars == <<locked, stack, txn, entry>>
iterVars == <<itActive, tasks, pending, failedInRun, returnedInRun>>

Op(op, arg, ret) == [op |-> op, arg |-> arg, ret |-> ret]

\* One more edit counted, up to MaxEdits.
CountEdit == edits' = Min(edits + 1, MaxEdits)

\* ------------------------------------------------------------------- graph

successors(E, n) == {e[2] : e \in {x \in E : x[1] = n}}

predecessors(E, n) == {e[1] : e \in {x \in E : x[2] = n}}

RECURSIVE Descendants(_, _)
\* All nodes reachable from the set S along edges of E (S included).
Descendants(E, S) ==
  LET nxt == S \cup UNION {successors(E, n) : n \in S}
  IN IF nxt = S THEN S ELSE Descendants(E, nxt)

is_directed_acyclic_graph(N, E) ==
  \A n \in N : n \notin Descendants(E, successors(E, n))

\* graph.remove_node: the node, its data and its incident edges.
remove_node(G, tid) ==
  [nodes |-> Remove(G.nodes, tid),
   obj   |-> [t \in (DOMAIN G.obj) \ {tid} |-> G.obj[t]],
   edges |-> {e \in G.edges : e[1] # tid /\ e[2] # tid}]

\* graph.add_node(tid, obj=task)
add_node(G, task) ==
  [nodes |-> Append(G.nodes, task.tid),
   obj   |-> [t \in (DOMAIN G.obj) \cup {task.tid} |->
                IF t = task.tid THEN task ELSE G.obj[t]],
   edges |-> G.edges]

Graph == [nodes |-> nodes, obj |-> obj, edges |-> edges]

\* --------------------------------------------------------- pattern finders

\* search_pattern(pat).match(value): the pattern anchored as ^pat$.  The
\* patterns in use are literal names and ".*".
search_pattern(pat, value) == pat = ".*" \/ pat = value

\* Workflow.find: ids of the tasks whose name matches (empty: ValueError).
find(G, pattern) ==
  {t \in Range(G.nodes) : search_pattern(pattern, G.obj[t].name)}

\* A find_by_output that stops at the first task with a matching output.
find_by_output_first_match(G, pattern) ==
  LET m == {t \in Range(G.nodes) :
              \E i \in DOMAIN G.obj[t].output : search_pattern(pattern, G.obj[t].output[i])}
  IN IF m = {} THEN {} ELSE {CHOOSE t \in m : TRUE}

\* Workflow.find_by_output: ids of the tasks with a matching output value.
find_by_output(G, pattern) ==
  {t \in Range(G.nodes) :
     \E i \in DOMAIN G.obj[t].output : search_pattern(pattern, G.obj[t].output[i])}

\* ------------------------------------------------------ dependency linking

\* _add_edge without the acyclicity check after graph.add_edge.
add_edge_unchecked(N, E, from_node, to_node) == TRUE

\* _add_edge(from_node, to_node) raises NotDagError exactly when the graph
\* with the edge added is not acyclic (the edge is then taken out again).
add_edge_ok(N, E, from_node, to_node) ==
  is_directed_acyclic_graph(N, E \cup {<<from_node, to_node>>})

\* The directive values of one task in the order _link_dependencies
\* handles them: after, before, input.
DirectiveSteps(task) ==
  [i \in 1..Len(task.after) |-> [tid |-> task.tid, kind |-> "after", value |-> task.after[i]]]
  \o [i \in 1..Len(task.before) |-> [tid |-> task.tid, kind |-> "before", value |-> task.before[i]]]
  \o [i \in 1..Len(task.input) |-> [tid |-> task.tid, kind |-> "input", value |-> task.input[i]]]

RECURSIVE UpdateSteps(_, _)
\* update(): every task in node order.
UpdateSteps(G, i) ==
  IF i > Len(G.nodes) THEN <<>>
  ELSE DirectiveSteps(G.obj[G.nodes[i]]) \o UpdateSteps(G, i + 1)

\* The edges one directive value asks for.
StepMatches(G, step) ==
  IF step.kind = "input" THEN find_by_output(G, step.value) ELSE find(G, step.value)

\* _before adding its edge in the direction of _after.
StepEdge_same_direction(step, tar_id) == <<step.tid, tar_id>>

StepEdge(step, tar_id) ==
  IF step.kind = "before" THEN <<tar_id, step.tid>> ELSE <<step.tid, tar_id>>

RECURSIVE link_dependencies(_, _, _, _)
\* Runs the directive values steps[i..] against graph G with edge set E.
\* The result is the set of possible outcomes [ok, edges, err]: the matches
\* of a value are a Python set, so when one of its edges is rejected the
\* edges added before it are any subset of the acceptable ones.
link_dependencies(G, E, steps, i) ==
  IF i > Len(steps) THEN {[ok |-> TRUE, edges |-> E, err |-> "none"]}
  ELSE
    LET step == steps[i]
        matches == StepMatches(G, step)
        new == {StepEdge(step, m) : m \in matches}
        bad == {e \in new : ~add_edge_ok(Range(G.nodes), E, e[1], e[2])}
    IN IF matches = {} THEN {[ok |-> FALSE, edges |-> E, err |-> "ValueError"]}
       ELSE IF step.tid \in matches THEN {[ok |-> FALSE, edges |-> E, err |-> "ValueError"]}
       ELSE IF bad # {}
         THEN {[ok |-> FALSE, edges |-> E \cup S, err |-> "NotDagError"] : S \in SUBSET (new \ bad)}
       ELSE link_dependencies(G, E \cup new, steps, i + 1)

\* Workflow.update(): the possible outcomes of re-linking every task.
update(G) == link_dependencies(G, G.edges, UpdateSteps(G, 1), 1)

\* A graph with the edges of one outcome of update().
WithEdges(G, E) == [nodes |-> G.nodes, obj |-> G.obj, edges |-> E]

\* ---------------------------------------------------------- task lifecycle
\* Class Task (jetstream/tasks.py) after section 4.1 of the specification.

is_done(task) == task.status \in {"complete", "failed"}

is_failed(task) == task.status = "failed"

\* Task.start(): new -> pending.
task_start(O, tid) == [O EXCEPT ![tid].status = "pending"]

\* Task.complete(rc): -> complete, stores rc.
task_complete(O, tid, rc) ==
  [O EXCEPT ![tid].status = "complete", ![tid].returncode = <<rc>>]

\* Task.reset(): clears status and returncode.
task_reset(O, tid) == [O EXCEPT ![tid].status = "new", ![tid].returncode = None]

\* Workflow.dependencies(task): the graph successors of the task.
dependencies(G, tid) == successors(G.edges, tid)

\* dependents() reading graph.successors in place of graph.predecessors.
dependents_successors(G, tid) == successors(G.edges, tid)

\* Workflow.dependents(task): the graph predecessors of the task.
dependents(G, tid) == predecessors(G.edges, tid)

RECURSIVE AllDependents(_, _)
\* Every task reachable from the set S by following dependents (S included).
AllDependents(G, S) ==
  LET nxt == S \cup UNION {dependents(G, n) : n \in S}
  IN IF nxt = S THEN S ELSE AllDependents(G, nxt)

\* Task.fail(rc): -> failed with rc; every task reachable over dependents
\* whose status is new is failed with the dependency-failure returncode.
task_fail(G, tid, rc) ==
  LET reach == AllDependents(G, dependents(G, tid)) \ {tid}
  IN [t \in DOMAIN G.obj |->
        IF t = tid
          THEN [G.obj[t] EXCEPT !.status = "failed", !.returncode = <<rc>>]
        ELSE IF t \in reach /\ G.obj[t].status = "new"
          THEN [G.obj[t] EXCEPT !.status = "failed",
                                !.returncode = <<DependencyFailureCode>>]
        ELSE G.obj[t]]

\* is_ready() without the loop over the dependencies.
is_ready_status_only(G, tid) == G.obj[tid].status = "new"

\* is_ready() satisfied by one dependency that is done.
is_ready_some_dependency(G, tid) ==
  /\ G.obj[tid].status = "new"
  /\ \/ dependencies(G, tid) = {}
     \/ \E d \in dependencies(G, tid) : is_done(G.obj[d])

\* is_ready() that takes every task that is not done for a new one.
is_ready_not_done(G, tid) ==
  /\ ~is_done(G.obj[tid])
  /\ \A d \in dependencies(G, tid) : is_done(G.obj[d])

\* Workflow.is_ready(task)
is_ready(G, tid) ==
  /\ G.obj[tid].status = "new"
  /\ \A d \in dependencies(G, tid) : is_done(G.obj[d])

\* ----------------------------------------------------- workflow mutation

SetGraph(G) ==
  /\ nodes' = G.nodes
  /\ obj' = G.obj
  /\ edges' = G.edges

\* Workflow.__enter__: acquires the (non re-entrant) lock, opens the stack.
enter ==
  /\ ~itActive
  /\ UNCHANGED <<backendVars, osVars>>
  /\ txn = FALSE
  /\ ~locked
  /\ locked' = TRUE
  /\ stack' = <<>>
  /\ txn' = TRUE
  /\ entry' = Range(nodes)
  /\ last' = Op("enter", "-", "ok")
  /\ UNCHANGED <<graphVars, iterVars, edits>>

\* Workflow.add_task(task), inside or outside a transaction.
add_task(task) ==
  /\ ~itActive
  /\ UNCHANGED <<backendVars, osVars>>
  /\ locked => Len(stack) < MaxStack
  /\ IF task.tid \in Range(nodes)
       THEN /\ last' = Op("add_task", task.tid, "ValueError")
            /\ UNCHANGED <<graphVars, stack>>
       ELSE LET G1 == add_node(Graph, task)
            IN IF locked
                 THEN /\ stack' = Append(stack, task.tid)
                      /\ SetGraph(G1)
                      /\ last' = Op("add_task", task.tid, "ok")
                 ELSE \E out \in update(G1) :
                        /\ IF out.ok
                             THEN SetGraph(WithEdges(G1, out.edges))
                             ELSE SetGraph(remove_node(WithEdges(G1, out.edges), task.tid))
                        /\ last' = Op("add_task", task.tid,
                                      IF out.ok THEN "ok" ELSE out.err)
                        /\ UNCHANGED stack
  /\ CountEdit
  /\ UNCHANGED <<locked, txn, entry, iterVars>>

\* Workflow.remove_task(task_id)
remove_task(task_id) ==
  /\ ~itActive
  /\ UNCHANGED <<backendVars, osVars>>
  /\ IF task_id \in Range(nodes)
       THEN /\ SetGraph(remove_node(Graph, task_id))
            /\ last' = Op("remove_task", task_id, "ok")
       ELSE /\ UNCHANGED graphVars
            /\ last' = Op("remove_task", task_id, "NetworkXError")
  /\ CountEdit
  /\ UNCHANGED <<lockVars, iterVars>>

RECURSIVE RollBack(_, _, _)
\* __exit__ on error: graph.remove_node for every id of the stack, in order;
\* removing an id that is no node raises and ends the loop.
RollBack(G, stk, i) ==
  IF i > Len(stk) THEN [ok |-> TRUE, graph |-> G]
  ELSE IF stk[i] \notin Range(G.nodes) THEN [ok |-> FALSE, graph |-> G]
  ELSE RollBack(remove_node(G, stk[i]), stk, i + 1)

\* The tail of __exit__: update(), then the stack is cleared and the lock
\* released.  An exception of update() leaves __exit__ before both.
ExitFrom(G, stk, op) ==
  \E out \in update(G) :
    /\ SetGraph(WithEdges(G, out.edges))
    /\ stack' = IF out.ok THEN <<>> ELSE stk
    /\ locked' = ~out.ok
    /\ txn' = FALSE
    /\ last' = Op(op, "-", IF out.ok THEN "ok" ELSE out.err)
    /\ UNCHANGED <<entry, iterVars, edits>>

\* Workflow.__exit__(None, None, None): the body ended without an error.
exit ==
  /\ txn = TRUE
  /\ UNCHANGED <<backendVars, osVars>>
  /\ ExitFrom(Graph, stack, "exit")

\* Workflow.__exit__(exc_type, exc_value, tb): the body raised.
exit_error ==
  /\ txn = TRUE
  /\ UNCHANGED <<backendVars, osVars>>
  /\ LET rb == RollBack(Graph, stack, 1)
     IN IF rb.ok
          THEN ExitFrom(rb.graph, stack, "exit_error")
          ELSE /\ SetGraph(rb.graph)
               /\ txn' = FALSE
               /\ last' = Op("exit_error", "-", "NetworkXError")
               /\ UNCHANGED <<locked, stack, entry, iterVars, edits>>

RECURSIVE ComposeBody_replace_all(_, _, _, _)
\* The loop of compose replacing every colliding task, failed or not.
ComposeBody_replace_all(G, stk, other, i) ==
  IF i > Len(other.nodes) THEN [graph |-> G, stack |-> stk]
  ELSE
    LET task == other.obj[other.nodes[i]]
    IN IF task.tid \notin Range(G.nodes)
         THEN ComposeBody_replace_all(add_node(G, task), Append(stk, task.tid), other, i + 1)
       ELSE ComposeBody_replace_all(add_node(remove_node(G, task.tid), task),
                                    Append(stk, task.tid), other, i + 1)

RECURSIVE ComposeBody(_, _, _, _)
\* The loop of compose(wf) under the lock: every task of wf, in wf's order.
ComposeBody(G, stk, other, i) ==
  IF i > Len(other.nodes) THEN [graph |-> G, stack |-> stk]
  ELSE
    LET task == other.obj[other.nodes[i]]
    IN IF task.tid \notin Range(G.nodes)
         THEN ComposeBody(add_node(G, task), Append(stk, task.tid), other, i + 1)
       ELSE IF is_failed(G.obj[task.tid])
         THEN ComposeBody(add_node(remove_node(G, task.tid), task),
                          Append(stk, task.tid), other, i + 1)
       ELSE ComposeBody(G, stk, other, i + 1)

\* Workflow.compose(wf): "with self:" around the loop.
compose(other) ==
  /\ ~itActive
  /\ UNCHANGED <<backendVars, osVars>>
  /\ txn = FALSE
  /\ ~locked
  /\ entry' = Range(nodes)
  /\ LET r == ComposeBody(Graph, <<>>, other, 1)
     IN \E out \in update(r.graph) :
          /\ SetGraph(WithEdges(r.graph, out.edges))
          /\ stack' = IF out.ok THEN <<>> ELSE r.stack
          /\ locked' = ~out.ok
          /\ last' = Op("compose", "-", IF out.ok THEN "ok" ELSE out.err)
  /\ CountEdit
  /\ UNCHANGED <<txn, iterVars>>

\* ------------------------------------------------------------ bulk resets

ResetWhere(statuses) ==
  [t \in DOMAIN obj |->
     IF obj[t].status \in statuses
       THEN [obj[t] EXCEPT !.status = "new", !.returncode = None]
       ELSE obj[t]]

\* Workflow.resume()
resume ==
  /\ ~itActive
  /\ UNCHANGED <<backendVars, osVars>>
  /\ obj' = ResetWhere({"pending"})
  /\ last' = Op("resume", "-", "ok")
  /\ UNCHANGED <<nodes, edges, lockVars, iterVars, edits>>

\* retry() resetting the failed tasks only.
retry_failed_only ==
  /\ ~itActive
  /\ UNCHANGED <<backendVars, osVars>>
  /\ obj' = ResetWhere({"failed"})
  /\ last' = Op("retry", "-", "ok")
  /\ UNCHANGED <<nodes, edges, lockVars, iterVars, edits>>

\* Workflow.retry()
retry ==
  /\ ~itActive
  /\ UNCHANGED <<backendVars, osVars>>
  /\ obj' = ResetWhere({"pending", "failed"})
  /\ last' = Op("retry", "-", "ok")
  /\ UNCHANGED <<nodes, edges, lockVars, iterVars, edits>>

\* Workflow.reset()
reset ==
  /\ ~itActive
  /\ UNCHANGED <<backendVars, osVars>>
  /\ obj' = ResetWhere({"new", "pending", "complete", "failed"})
  /\ last' = Op("reset", "-", "ok")
  /\ UNCHANGED <<nodes, edges, lockVars, iterVars, edits>>

\* task.reset() on one task of the workflow.
reset_task(tid) ==
  /\ ~itActive
  /\ UNCHANGED <<backendVars, osVars>>
  /\ tid \in Range(nodes)
  /\ obj' = task_reset(obj, tid)
  /\ last' = Op("reset_task", tid, "ok")
  /\ UNCHANGED <<nodes, edges, lockVars, iterVars, edits>>

\* --------------------------------------------------------------- iterator

\* Workflow.__iter__ / WorkflowIterator.__init__
iter ==
  /\ ~itActive
  /\ UNCHANGED <<backendVars, osVars>>
  /\ txn = FALSE
  /\ nodes # <<>>
  /\ itActive' = TRUE
  /\ tasks' = nodes
  /\ pending' = <<>>
  /\ failedInRun' = {}
  /\ returnedInRun' = {}
  /\ last' = Op("iter", "-", "ok")
  /\ UNCHANGED <<graphVars, lockVars, edits>>

RECURSIVE Scan_keeps_returned(_, _, _)
\* __next__ returning a ready task without popping it from self.tasks.
Scan_keeps_returned(G, ts, i) ==
  IF i = 0 THEN [tasks |-> ts, ret |-> "None"]
  ELSE IF is_done(G.obj[ts[i]]) THEN Scan_keeps_returned(G, Pop(ts, i), i - 1)
  ELSE IF is_ready(G, ts[i]) THEN [tasks |-> ts, ret |-> ts[i]]
  ELSE Scan_keeps_returned(G, ts, i - 1)

RECURSIVE Scan_keeps_done(_, _, _)
\* __next__ without the branch that pops a task that is done.
Scan_keeps_done(G, ts, i) ==
  IF i = 0 THEN [tasks |-> ts, ret |-> "None"]
  ELSE IF is_ready(G, ts[i]) THEN [tasks |-> Pop(ts, i), ret |-> ts[i]]
  ELSE Scan_keeps_done(G, ts, i - 1)

\* __next__ scanning in insertion order: the first ready task is returned.
Scan_insertion_order(G, ts, i) ==
  LET ready == {j \in 1..i : is_ready(G, ts[j])}
  IN IF ready = {}
       THEN [tasks |-> SelectSeq(ts, LAMBDA t : ~is_done(G.obj[t])), ret |-> "None"]
       ELSE LET k == CHOOSE j \in ready : \A h \in ready : j <= h
            IN [tasks |-> Pop(ts, k), ret |-> ts[k]]

RECURSIVE Scan(_, _, _)
\* The loop of __next__ over reversed(range(len(self.tasks))), at index i:
\* the remaining list it leaves and the task it returns ("None": no task).
Scan(G, ts, i) ==
  IF i = 0 THEN [tasks |-> ts, ret |-> "None"]
  ELSE IF is_done(G.obj[ts[i]]) THEN Scan(G, Pop(ts, i), i - 1)
  ELSE IF is_ready(G, ts[i]) THEN [tasks |-> Pop(ts, i), ret |-> ts[i]]
  ELSE Scan(G, ts, i - 1)

\* WorkflowIterator.__next__
next ==
  /\ itActive
  /\ UNCHANGED <<backendVars, osVars>>
  /\ LET pend == SelectSeq(pending, LAMBDA t : ~is_done(obj[t]))
     IN IF tasks = <<>> /\ pend = <<>>
          THEN /\ pending' = pend
               /\ itActive' = FALSE
               /\ last' = Op("next", "-", "StopIteration")
               /\ UNCHANGED <<tasks, obj, returnedInRun>>
          ELSE LET r == Scan(Graph, tasks, Len(tasks))
               IN /\ tasks' = r.tasks
                  /\ itActive' = TRUE
                  /\ IF r.ret = "None"
                       THEN /\ pending' = pend
                            /\ UNCHANGED <<obj, returnedInRun>>
                       ELSE /\ pending' = Append(pend, r.ret)
                            /\ obj' = task_start(obj, r.ret)
                            /\ returnedInRun' = returnedInRun \cup {r.ret}
                  /\ last' = Op("next", r.ret, "ok")
  /\ UNCHANGED <<nodes, edges, lockVars, failedInRun, edits>>

\* A spawn in flight: returned by this iterator and not yet terminal.
InFlight(tid) ==
  /\ itActive
  /\ tid \in Range(pending)
  /\ obj[tid].status = "pending"

\* complete() on a task whatever its status.
complete_any_status(tid) ==
  /\ itActive
  /\ UNCHANGED <<backendVars, osVars>>
  /\ tid \in Range(nodes)
  /\ obj' = task_complete(obj, tid, 0)
  /\ last' = Op("complete", tid, "ok")
  /\ UNCHANGED <<nodes, edges, lockVars, iterVars, edits>>

\* The backend ends a spawn with task.complete(0).
complete(tid) ==
  /\ InFlight(tid)
  /\ UNCHANGED <<backendVars, osVars>>
  /\ obj' = task_complete(obj, tid, 0)
  /\ last' = Op("complete", tid, "ok")
  /\ UNCHANGED <<nodes, edges, lockVars, iterVars, edits>>

\* The backend ends a spawn with task.fail(rc).
fail(tid, rc) ==
  /\ InFlight(tid)
  /\ UNCHANGED <<backendVars, osVars>>
  /\ obj' = task_fail(Graph, tid, rc)
  /\ failedInRun' = failedInRun \cup {tid}
  /\ last' = Op("fail", tid, "ok")
  /\ UNCHANGED <<nodes, edges, lockVars, itActive, tasks, pending, returnedInRun, edits>>

\* The runner halts the run (loop.stop()) with spawns still in flight.
halt ==
  /\ itActive
  /\ UNCHANGED <<backendVars, osVars>>
  /\ itActive' = FALSE
  /\ last' = Op("halt", "-", "ok")
  /\ UNCHANGED <<graphVars, lockVars, tasks, pending, failedInRun, returnedInRun, edits>>

\* ------------------------------------------------------- built workflows

RECURSIVE TaskLists(_)
\* Lists of n tasks with distinct ids.
TaskLists(n) ==
  IF n = 0 THEN {<<>>}
  ELSE {Append(l, t) : l \in TaskLists(n - 1), t \in Tasks} 

DistinctIds(l) == \A i, j \in DOMAIN l : i # j => l[i].tid # l[j].tid

\* The graph after "with wf:" and add_task for every task of the list.
Staged(l) ==
  [nodes |-> [i \in DOMAIN l |-> l[i].tid],
   obj   |-> [t \in {l[i].tid : i \in DOMAIN l} |->
                l[CHOOSE i \in DOMAIN l : l[i].tid = t]],
   edges |-> {}]

\* build_workflow(tasks) for every task list it accepts.
BuiltWorkflows ==
  UNION { {WithEdges(Staged(l), out.edges) : out \in {o \in update(Staged(l)) : o.ok}} :
          l \in {x \in UNION {TaskLists(n) : n \in 1..Cardinality(Tids)} : DistinctIds(x)} }

\* A built workflow after a run in which every command that ran failed.
FailedRun(W) ==
  [nodes |-> W.nodes,
   obj   |-> [t \in DOMAIN W.obj |->
                [W.obj[t] EXCEPT !.status = "failed",
                   !.returncode = IF dependencies(W, t) = {} THEN <<2>>
                                  ELSE <<DependencyFailureCode>>]],
   edges |-> W.edges]

\* The workflows handed to compose.
OtherWorkflows == BuiltWorkflows \cup {FailedRun(W) : W \in BuiltWorkflows}

\* Nothing has been read from or given to the operating system yet.
NoOs ==
  /\ sacct_stdout = <<>>
  /\ sacct_data = [exc |-> "none", jobs |-> <<>>]
  /\ files = [p \in {SavePath, lock_path(SavePath)} |-> NoFile]
  /\ save_pc = "idle"
  /\ save_text = <<>>
  /\ sbatch_kwargs = <<>>
  /\ sbatch_args = <<>>

\* No runner, no backend: the workflow is used on its own.
NoBackend ==
  /\ NoOs
  /\ backend = "none"
  /\ directives = <<>>
  /\ sp = <<>>
  /\ proc = <<>>
  /\ cpu_sem = 0
  /\ jobs = {}
  /\ job_data = <<>>
  /\ scancelled = {}
  /\ monitor = "none"
  /\ runner = "none"

\* ----------------------------------------------------------- specifications

Init ==
  /\ nodes = <<>>
  /\ obj = <<>>
  /\ edges = {}
  /\ locked = FALSE
  /\ stack = <<>>
  /\ txn = FALSE
  /\ entry = {}
  /\ itActive = FALSE
  /\ tasks = <<>>
  /\ pending = <<>>
  /\ failedInRun = {}
  /\ returnedInRun = {}
  /\ edits = 0
  /\ last = Op("init", "-", "ok")
  /\ NoBackend

\* Editing a workflow: single additions and removals, transactions, compose.
Next ==
  \/ enter
  \/ \E task \in Tasks : add_task(task)
  \/ \E task_id \in Tids : remove_task(task_id)
  \/ exit
  \/ exit_error
  \/ \E other \in OtherWorkflows : compose(other)

Spec == Init /\ [][Next]_vars

\* Running a workflow made by build_workflow, with resets and compose
\* between runs.
InitRun ==
  /\ \E W \in BuiltWorkflows :
       /\ nodes = W.nodes
       /\ obj = W.obj
       /\ edges = W.edges
  /\ locked = FALSE
  /\ stack = <<>>
  /\ txn = FALSE
  /\ entry = {}
  /\ itActive = FALSE
  /\ tasks = <<>>
  /\ pending = <<>>
  /\ failedInRun = {}
  /\ returnedInRun = {}
  /\ edits = 0
  /\ last = Op("init", "-", "ok")
  /\ NoBackend

NextRun ==
  \/ iter
  \/ next
  \/ \E tid \in Tids : complete(tid)
  \/ \E tid \in Tids, rc \in FailCodes : fail(tid, rc)
  \/ halt
  \/ resume
  \/ retry
  \/ reset
  \/ \E tid \in Tids : reset_task(tid)
  \/ \E task \in Tasks : edits < MaxEdits /\ add_task(task)
  \/ \E task_id \in Tids : edits < MaxEdits /\ remove_task(task_id)
  \/ \E other \in BuiltWorkflows : edits < MaxEdits /\ compose(other)

SpecRun == InitRun /\ [][NextRun]_vars

\* One run of a freshly built workflow (every task new), in which the
\* manager keeps calling next() and every spawn ends with complete or fail.
NextLive ==
  \/ last.op = "init" /\ iter
  \/ next
  \/ \E tid \in Tids : complete(tid)
  \/ \E tid \in Tids, rc \in FailCodes : fail(tid, rc)

\* A spawn in flight ends.
Finish == \E tid \in Tids : complete(tid) \/ \E rc \in FailCodes : fail(tid, rc)

SpecLive ==
  /\ InitRun
  /\ [][NextLive]_vars
  /\ WF_vars(last.op = "init" /\ iter)
  /\ WF_vars(next)
  /\ WF_vars(Finish)


\* Runs of a built workflow, ended or halted, with compose between them:
\* self has tasks of every status when another workflow is merged into it.
NextCompose ==
  \/ iter
  \/ next
  \/ \E tid \in Tids : complete(tid)
  \/ \E tid \in Tids, rc \in FailCodes : fail(tid, rc)
  \/ halt
  \/ \E other \in OtherWorkflows : edits < MaxEdits /\ compose(other)

SpecCompose == InitRun /\ [][NextCompose]_vars

\* Task mappings with at most one "after" and one "before" value, each the
\* name of a task.
OrderingTasks ==
  {Task([name |-> n, after |-> af, before |-> bf, input |-> <<>>, output |-> <<>>]) :
     n \in Tids,
     af \in {<<>>} \cup {<<m>> : m \in Tids},
     bf \in {<<>>} \cup {<<m>> : m \in Tids}}

RECURSIVE ListsOf(_, _)
\* Lists of n tasks of the set T with distinct ids.
ListsOf(T, n) ==
  IF n = 0 THEN {<<>>}
  ELSE UNION { {Append(l, t) : t \in {x \in T : \A i \in DOMAIN l : l[i].tid # x.tid}} :
               l \in ListsOf(T, n - 1) }

\* build_workflow(tasks): "with wf:" around add_task for every mapping.  On
\* an error of the commit the exception leaves build_workflow; the workflow
\* is left with the staged tasks and the lock held.
build_workflow(l) ==
  /\ last.op = "init"
  /\ UNCHANGED <<backendVars, osVars>>
  /\ DistinctIds(l)
  /\ \E out \in update(Staged(l)) :
       /\ SetGraph(WithEdges(Staged(l), out.edges))
       /\ stack' = IF out.ok THEN <<>> ELSE Staged(l).nodes
       /\ locked' = ~out.ok
       /\ last' = Op("build_workflow", "-", IF out.ok THEN "ok" ELSE out.err)
  /\ UNCHANGED <<txn, entry, iterVars, edits>>

\* The task lists handed to build_workflow.
\* Building a workflow from task mappings ordered by "after" and "before".
NextBuild ==
  /\ last.op = "init"
  /\ \E l \in UNION {ListsOf(OrderingTasks, n) : n \in 1..Cardinality(Tids)} : build_workflow(l)

SpecBuild == Init /\ [][NextBuild]_vars

\* Task mappings linked by "input" and "output" values only.
DataflowTasks ==
  {Task([name |-> n, after |-> <<>>, before |-> <<>>, input |-> inp, output |-> outp]) :
     n \in Tids,
     inp \in {<<>>, <<"f">>, <<"g">>},
     outp \in {<<>>, <<"f">>, <<"f", "g">>}}

\* A workflow build_workflow has made from input/output mappings, about to
\* be run.
InitDataflow ==
  /\ \E l \in UNION {ListsOf(DataflowTasks, n) : n \in 1..Cardinality(Tids)} : \E out \in update(Staged(l)) :
       /\ out.ok
       /\ nodes = Staged(l).nodes
       /\ obj = Staged(l).obj
       /\ edges = out.edges
  /\ locked = FALSE
  /\ stack = <<>>
  /\ txn = FALSE
  /\ entry = {}
  /\ itActive = FALSE
  /\ tasks = <<>>
  /\ pending = <<>>
  /\ failedInRun = {}
  /\ returnedInRun = {}
  /\ edits = 0
  /\ last = Op("init", "-", "ok")
  /\ NoBackend

\* One run of a workflow linked by input and output.
SpecDataflow == InitDataflow /\ [][NextLive]_vars

\* The diamond: b and c after a, d after b and c.
DiamondTasks ==
  {Task([name |-> "a", after |-> <<>>, before |-> <<>>, input |-> <<>>, output |-> <<>>]),
   Task([name |-> "b", after |-> <<"a">>, before |-> <<>>, input |-> <<>>, output |-> <<>>]),
   Task([name |-> "c", after |-> <<"a">>, before |-> <<>>, input |-> <<>>, output |-> <<>>]),
   Task([name |-> "d", after |-> <<"b", "c">>, before |-> <<>>, input |-> <<>>, output |-> <<>>])}

DiamondTids == {t.tid : t \in DiamondTasks}

\* The diamond built by build_workflow from its tasks in any order, about
\* to be run.
InitDiamond ==
  /\ \E l \in ListsOf(DiamondTasks, Cardinality(DiamondTasks)) :
       \E out \in update(Staged(l)) :
         /\ out.ok
         /\ nodes = Staged(l).nodes
         /\ obj = Staged(l).obj
         /\ edges = out.edges
  /\ locked = FALSE
  /\ stack = <<>>
  /\ txn = FALSE
  /\ entry = {}
  /\ itActive = FALSE
  /\ tasks = <<>>
  /\ pending = <<>>
  /\ failedInRun = {}
  /\ returnedInRun = {}
  /\ edits = 0
  /\ last = Op("init", "-", "ok")
  /\ NoBackend

\* One run of the diamond: the runner takes tasks from the iterator while
\* the spawns it started complete or fail.
NextDiamond ==
  \/ last.op = "init" /\ iter
  \/ next
  \/ \E tid \in DiamondTids : complete(tid)
  \/ \E tid \in DiamondTids, rc \in FailCodes : fail(tid, rc)

SpecDiamond == InitDiamond /\ [][NextDiamond]_vars

\* A workflow saved in the middle of a run and about to be run again
\* without resume(): some of its tasks are pending, others complete or new.
InitSavedMidRun ==
  /\ \E W \in BuiltWorkflows :
       \E st \in [Range(W.nodes) -> {"new", "pending", "complete"}] :
         /\ \E t \in Range(W.nodes) : st[t] = "pending"
         /\ nodes = W.nodes
         /\ obj = [t \in Range(W.nodes) |->
                     [W.obj[t] EXCEPT !.status = st[t],
                                      !.returncode = IF st[t] = "complete" THEN <<0>> ELSE None]]
         /\ edges = W.edges
  /\ locked = FALSE
  /\ stack = <<>>
  /\ txn = FALSE
  /\ entry = {}
  /\ itActive = FALSE
  /\ tasks = <<>>
  /\ pending = <<>>
  /\ failedInRun = {}
  /\ returnedInRun = {}
  /\ edits = 0
  /\ last = Op("init", "-", "ok")
  /\ NoBackend

\* One run of a workflow that was saved in the middle of a run.
SpecSavedMidRun == InitSavedMidRun /\ [][NextLive]_vars

\* ----------------------------------------------------------------- backends

\* Permits of the local backend's CPU semaphore (self.cpus).
Capacity == 2

\* SlurmBackend(max_concurrency=...): the limit the backend is built with.
max_concurrency == 2

\* The returncode a cancelled spawn fails its task with.
CancelCode == -15

\* The directives a backend reads from a task: whether cmd is given, and
\* cpus (directives.get('cpus', 0): 0 when absent).
LocalDirectives ==
  {[cmd |-> FALSE, cpus |-> 0]} \cup {[cmd |-> TRUE, cpus |-> k] : k \in 0..(Capacity + 1)}

SlurmDirectives == {[cmd |-> FALSE, cpus |-> 0], [cmd |-> TRUE, cpus |-> 0]}

\* BoundedSemaphore.release(), n times.
Release_none(sem, n) == sem

Release(sem, n) == sem + n

\* SlurmBatchJob.active_states, inactive_states, passed_states
active_states == {"CONFIGURING", "COMPLETING", "RUNNING", "SPECIAL_EXIT", "PENDING"}

inactive_states ==
  {"BOOT_FAIL", "CANCELLED", "COMPLETED", "FAILED", "NODE_FAIL", "PREEMPTED",
   "REVOKED", "STOPPED", "SUSPENDED", "TIMEOUT"}

passed_states == {"COMPLETED"}

\* A job's data is a dict, given as its set of <<key, value>> pairs; {} stands
\* for both None and the empty dict, which "if self._job_data" does not tell
\* apart.  parse_sacct gives a job that has only step rows the single key
\* "_steps".
SacctRecords ==
  { {<<"State", "RUNNING">>},
    {<<"State", "COMPLETED">>, <<"ExitCode", "0:0">>},
    {<<"State", "FAILED">>, <<"ExitCode", "2:0">>},
    {<<"State", "OUT_OF_MEMORY">>, <<"ExitCode", "0:125">>},
    {<<"_steps", "rows">>} }

HasKey(data, key) == \E kv \in data : kv[1] = key

\* dict.get(key): the value, or "None"
Get(data, key) ==
  IF HasKey(data, key) THEN (CHOOSE kv \in data : kv[1] = key)[2] ELSE "None"

\* SlurmBatchJob.is_done()
job_is_done(data) == data # {} /\ Get(data, "State") \notin active_states

\* SlurmBatchJob.is_ok(): "True", "False", or the exception it raises
job_is_ok(data) ==
  IF ~job_is_done(data) THEN "ValueError"
  ELSE IF ~HasKey(data, "State") THEN "KeyError"
  ELSE IF Get(data, "State") \in passed_states THEN "True"
  ELSE "False"

\* SlurmBatchJob.returncode() of a job that is done
job_returncode(data) ==
  IF HasKey(data, "ExitCode")
    THEN CASE Get(data, "ExitCode") = "0:0" -> 0
           [] Get(data, "ExitCode") = "2:0" -> 2
           [] OTHER -> 0
    ELSE IF job_is_ok(data) = "True" THEN 0 ELSE 1

\* The runner hands the task next() returned to backend.spawn.
Spawnable(t) ==
  /\ runner = "running"
  /\ InFlight(t)
  /\ sp[t].pc = "idle"

\* spawn_local from the end of the acquire loop (r permits held, v free):
\* the log files are opened and the subprocess is created, then the
\* coroutine waits for it; an error of open() reaches "finally", which
\* releases the permits and returns the task; when the system refuses a new
\* process (BlockingIOError) subprocess_sh sleeps before it tries again.
LocalStart(t, r, v) ==
  \E outcome \in {"started", "OSError", "refused"} :
    CASE outcome = "started" ->
           /\ sp' = [sp EXCEPT ![t] = [pc |-> "wait", reserved |-> r]]
           /\ proc' = [proc EXCEPT ![t] = "running"]
           /\ cpu_sem' = v
           /\ last' = Op("spawn", t, "waiting")
      [] outcome = "OSError" ->
           /\ sp' = [sp EXCEPT ![t] = [pc |-> "returned", reserved |-> 0]]
           /\ cpu_sem' = Release(v, r)
           /\ last' = Op("spawn", t, "OSError")
           /\ UNCHANGED proc
      [] outcome = "refused" ->
           /\ sp' = [sp EXCEPT ![t] = [pc |-> "retry", reserved |-> r]]
           /\ cpu_sem' = v
           /\ last' = Op("spawn", t, "sleeping")
           /\ UNCHANGED proc

\* The acquire loop of spawn_local with r permits held: it takes permits
\* while some are free and is suspended when none is.
LocalAcquire(t, r) ==
  LET k == Min(directives[t].cpus - r, cpu_sem)
  IN IF r + k = directives[t].cpus
       THEN LocalStart(t, r + k, cpu_sem - k)
       ELSE /\ sp' = [sp EXCEPT ![t] = [pc |-> "acquire", reserved |-> r + k]]
            /\ cpu_sem' = cpu_sem - k
            /\ last' = Op("spawn", t, "acquiring")
            /\ UNCHANGED proc

\* CloudSwiftBackend.spawn_local(task), up to its first suspension
spawn_local(t) ==
  /\ backend = "local"
  /\ Spawnable(t)
  /\ IF ~directives[t].cmd
       THEN /\ obj' = task_complete(obj, t, 0)
            /\ sp' = [sp EXCEPT ![t].pc = "returned"]
            /\ last' = Op("spawn", t, "returned")
            /\ UNCHANGED <<proc, cpu_sem>>
       ELSE IF directives[t].cpus > Capacity
         THEN /\ sp' = [sp EXCEPT ![t].pc = "raised"]
              /\ last' = Op("spawn", t, "RuntimeError")
              /\ UNCHANGED <<obj, proc, cpu_sem>>
         ELSE LocalAcquire(t, 0) /\ UNCHANGED obj
  /\ UNCHANGED <<nodes, edges, lockVars, iterVars, edits, backend, osVars, directives,
                 jobs, job_data, scancelled, monitor, runner>>

\* spawn_local resumed in the acquire loop by a released permit
spawn_local_acquired(t) ==
  /\ backend = "local"
  /\ runner = "running"
  /\ sp[t].pc = "acquire"
  /\ cpu_sem > 0
  /\ LocalAcquire(t, sp[t].reserved)
  /\ UNCHANGED <<graphVars, lockVars, iterVars, edits, backend, osVars, directives,
                 jobs, job_data, scancelled, monitor, runner>>

\* A subprocess_sh that lets the BlockingIOError out: spawn_local's
\* "finally" releases the permits and returns the task.
subprocess_sh_raises(t) ==
  /\ backend = "local"
  /\ runner = "running"
  /\ sp[t].pc = "retry"
  /\ sp' = [sp EXCEPT ![t] = [pc |-> "returned", reserved |-> 0]]
  /\ cpu_sem' = Release(cpu_sem, sp[t].reserved)
  /\ last' = Op("retry", t, "BlockingIOError")
  /\ UNCHANGED <<graphVars, lockVars, iterVars, edits, backend, osVars, directives,
                 proc, jobs, job_data, scancelled, monitor, runner>>

\* The loop of subprocess_sh after its sleep of blocking_io_penalty: the
\* subprocess is created, or the system refuses again and the loop sleeps
\* once more.
subprocess_sh(t) ==
  /\ backend = "local"
  /\ runner = "running"
  /\ sp[t].pc = "retry"
  /\ \E accepted \in BOOLEAN :
       IF accepted
         THEN /\ sp' = [sp EXCEPT ![t].pc = "wait"]
              /\ proc' = [proc EXCEPT ![t] = "running"]
              /\ last' = Op("retry", t, "waiting")
         ELSE /\ last' = Op("retry", t, "sleeping")
              /\ UNCHANGED <<sp, proc>>
  /\ UNCHANGED <<graphVars, lockVars, iterVars, edits, backend, osVars, directives,
                 cpu_sem, jobs, job_data, scancelled, monitor, runner>>

\* spawn_local resumed by the end of its subprocess with returncode rc
spawn_local_waited(t, rc) ==
  /\ backend = "local"
  /\ runner = "running"
  /\ sp[t].pc = "wait"
  /\ proc' = [proc EXCEPT ![t] = "exited"]
  /\ IF rc # 0
       THEN /\ obj' = task_fail(Graph, t, rc)
            /\ failedInRun' = failedInRun \cup {t}
       ELSE /\ obj' = task_complete(obj, t, rc)
            /\ UNCHANGED failedInRun
  /\ cpu_sem' = Release(cpu_sem, sp[t].reserved)
  /\ sp' = [sp EXCEPT ![t] = [pc |-> "returned", reserved |-> 0]]
  /\ last' = Op("spawn", t, "returned")
  /\ UNCHANGED <<nodes, edges, lockVars, itActive, tasks, pending, returnedInRun,
                 edits, backend, osVars, directives, jobs, job_data, scancelled,
                 monitor, runner>>

\* spawn_local cancelled where it is suspended (acquire, sleep or wait): the
\* "except CancelledError" and "finally" clauses
spawn_local_cancelled(t) ==
  /\ backend = "local"
  /\ runner = "cancelling"
  /\ sp[t].pc \in {"acquire", "retry", "wait"}
  /\ obj' = task_fail(Graph, t, CancelCode)
  /\ failedInRun' = failedInRun \cup {t}
  /\ cpu_sem' = Release(cpu_sem, sp[t].reserved)
  /\ sp' = [sp EXCEPT ![t] = [pc |-> "returned", reserved |-> 0]]
  /\ last' = Op("cancelled", t, "returned")
  /\ UNCHANGED <<nodes, edges, lockVars, itActive, tasks, pending, returnedInRun,
                 edits, backend, osVars, directives, proc, jobs, job_data, scancelled,
                 monitor, runner>>

\* SlurmBackend.spawn(task), up to "await event.wait()"
spawn_slurm(t) ==
  /\ backend = "slurm"
  /\ Spawnable(t)
  /\ IF ~directives[t].cmd
       THEN /\ sp' = [sp EXCEPT ![t].pc = "returned"]
            /\ last' = Op("spawn", t, "returned")
            /\ UNCHANGED jobs
       ELSE \E submitted \in BOOLEAN :
              IF submitted
                THEN /\ jobs' = jobs \cup {t}
                     /\ sp' = [sp EXCEPT ![t].pc = "wait"]
                     /\ last' = Op("spawn", t, "waiting")
                ELSE /\ sp' = [sp EXCEPT ![t].pc = "raised"]
                     /\ last' = Op("spawn", t, "CalledProcessError")
                     /\ UNCHANGED jobs
  /\ UNCHANGED <<graphVars, lockVars, iterVars, edits, backend, osVars, directives,
                 proc, cpu_sem, job_data, scancelled, monitor, runner>>

\* One round of SlurmBackend.job_monitor: sacct reports a record for each
\* job of reported; a job that is done has its event set and is popped.
job_monitor ==
  /\ backend = "slurm"
  /\ runner = "running"
  /\ monitor = "running"
  /\ jobs # {}
  /\ \E reported \in SUBSET jobs : \E data \in [reported -> SacctRecords] :
       /\ job_data' = [j \in DOMAIN job_data |->
                         IF j \in reported THEN data[j] ELSE job_data[j]]
       /\ jobs' = {j \in jobs : ~(j \in reported /\ job_is_done(data[j]))}
  /\ last' = Op("job_monitor", "-", "ok")
  /\ UNCHANGED <<graphVars, lockVars, iterVars, edits, backend, osVars, directives,
                 sp, proc, cpu_sem, scancelled, monitor, runner>>

\* The event of the job of task t has been set by the monitor.
EventSet(t) == t \notin jobs /\ job_is_done(job_data[t])

\* SlurmBackend.spawn resumed by its event
spawn_slurm_waited(t) ==
  /\ backend = "slurm"
  /\ runner = "running"
  /\ sp[t].pc = "wait"
  /\ EventSet(t)
  /\ LET ok == job_is_ok(job_data[t])
     IN CASE ok = "True" ->
               /\ obj' = task_complete(obj, t, job_returncode(job_data[t]))
               /\ sp' = [sp EXCEPT ![t].pc = "returned"]
               /\ last' = Op("spawn", t, "returned")
               /\ UNCHANGED failedInRun
          [] ok = "False" ->
               /\ obj' = task_fail(Graph, t, job_returncode(job_data[t]))
               /\ failedInRun' = failedInRun \cup {t}
               /\ sp' = [sp EXCEPT ![t].pc = "returned"]
               /\ last' = Op("spawn", t, "returned")
          [] OTHER ->
               /\ sp' = [sp EXCEPT ![t].pc = "raised"]
               /\ last' = Op("spawn", t, ok)
               /\ UNCHANGED <<obj, failedInRun>>
  /\ UNCHANGED <<nodes, edges, lockVars, itActive, tasks, pending, returnedInRun,
                 edits, backend, osVars, directives, proc, cpu_sem, jobs, job_data,
                 scancelled, monitor, runner>>

\* The cancellation handler of SlurmBackend.spawn without task.fail(-15).
spawn_slurm_cancelled_no_fail(t) ==
  /\ backend = "slurm"
  /\ runner = "cancelling"
  /\ sp[t].pc = "wait"
  /\ scancelled' = scancelled \cup {t}
  /\ sp' = [sp EXCEPT ![t].pc = "returned"]
  /\ last' = Op("cancelled", t, "returned")
  /\ UNCHANGED <<graphVars, lockVars, iterVars, edits, backend, osVars, directives,
                 proc, cpu_sem, jobs, job_data, monitor, runner>>

\* SlurmBackend.spawn cancelled while it waits for its event
spawn_slurm_cancelled(t) ==
  /\ backend = "slurm"
  /\ runner = "cancelling"
  /\ sp[t].pc = "wait"
  /\ scancelled' = scancelled \cup {t}
  /\ obj' = task_fail(Graph, t, CancelCode)
  /\ failedInRun' = failedInRun \cup {t}
  /\ sp' = [sp EXCEPT ![t].pc = "returned"]
  /\ last' = Op("cancelled", t, "returned")
  /\ UNCHANGED <<nodes, edges, lockVars, itActive, tasks, pending, returnedInRun,
                 edits, backend, osVars, directives, proc, cpu_sem, jobs, job_data,
                 monitor, runner>>

\* job_monitor cancelled in wait_for_next_update.  The clause is "except
\* CancelledError" with the class of concurrent.futures: it is the class
\* asyncio raises up to Python 3.7 and another class from Python 3.8 on, so
\* whether the clause runs depends on the interpreter (caught).
job_monitor_cancelled ==
  /\ backend = "slurm"
  /\ runner = "cancelling"
  /\ monitor = "running"
  /\ \E caught \in BOOLEAN :
       IF caught /\ jobs # {}
         THEN /\ scancelled' = scancelled \cup jobs
              /\ last' = Op("job_monitor_cancelled", "-", "scancel")
         ELSE /\ UNCHANGED scancelled
              /\ last' = Op("job_monitor_cancelled", "-", "none")
  /\ monitor' = "stopped"
  /\ UNCHANGED <<graphVars, lockVars, iterVars, edits, backend, osVars, directives,
                 sp, proc, cpu_sem, jobs, job_data, runner>>

\* AsyncRunner.start, KeyboardInterrupt: every task of the loop is cancelled.
keyboard_interrupt ==
  /\ runner = "running"
  /\ itActive
  /\ runner' = "cancelling"
  /\ last' = Op("keyboard_interrupt", "-", "ok")
  /\ UNCHANGED <<graphVars, lockVars, iterVars, edits, backend, osVars, directives,
                 sp, proc, cpu_sem, jobs, job_data, scancelled, monitor>>

\* AsyncRunner.start after the manager has ended: the logger and the
\* backend coroutines are cancelled.
manager_done ==
  /\ runner = "running"
  /\ ~itActive
  /\ last.op = "next"
  /\ runner' = "cancelling"
  /\ last' = Op("manager_done", "-", "ok")
  /\ UNCHANGED <<graphVars, lockVars, iterVars, edits, backend, osVars, directives,
                 sp, proc, cpu_sem, jobs, job_data, scancelled, monitor>>

\* AsyncRunner.start, "finally": the loop is closed, once every cancelled
\* coroutine has run its handlers.
shutdown ==
  /\ runner = "cancelling"
  /\ \A t \in Range(nodes) : sp[t].pc \notin {"acquire", "retry", "wait"}
  /\ monitor # "running"
  /\ runner' = "stopped"
  /\ last' = Op("shutdown", "-", IF last.op = "manager_done" THEN "ended" ELSE last.ret)
  /\ UNCHANGED <<graphVars, lockVars, iterVars, edits, backend, osVars, directives,
                 sp, proc, cpu_sem, jobs, job_data, scancelled, monitor>>

\* Independent tasks (no dependency directive) named by the first n ids.
IndependentTasks(n) ==
  LET ids == SubSeq(<<"a", "b", "c">>, 1, n)
  IN [nodes |-> ids,
      obj   |-> [t \in Range(ids) |->
                   Task([name |-> t, after |-> <<>>, before |-> <<>>,
                         input |-> <<>>, output |-> <<>>])],
      edges |-> {}]

\* A runner about to run a workflow of independent tasks on a backend.
InitBackend ==
  /\ \E n \in 1..Cardinality(Tids) :
       /\ nodes = IndependentTasks(n).nodes
       /\ obj = IndependentTasks(n).obj
       /\ edges = {}
  /\ NoOs
  /\ backend \in {"local", "slurm"}
  /\ directives \in [Range(nodes) ->
                      IF backend = "local" THEN LocalDirectives ELSE SlurmDirectives]
  /\ sp = [t \in Range(nodes) |-> [pc |-> "idle", reserved |-> 0]]
  /\ proc = [t \in Range(nodes) |-> "none"]
  /\ cpu_sem = IF backend = "local" THEN Capacity ELSE 0
  /\ jobs = {}
  /\ job_data = [t \in Range(nodes) |-> {}]
  /\ scancelled = {}
  /\ monitor = IF backend = "slurm" THEN "running" ELSE "none"
  /\ runner = "running"
  /\ locked = FALSE
  /\ stack = <<>>
  /\ txn = FALSE
  /\ entry = {}
  /\ itActive = FALSE
  /\ tasks = <<>>
  /\ pending = <<>>
  /\ failedInRun = {}
  /\ returnedInRun = {}
  /\ edits = 0
  /\ last = Op("init", "-", "ok")

NextBackend ==
  \/ last.op = "init" /\ iter
  \/ runner = "running" /\ next
  \/ \E t \in Tids : t \in Range(nodes) /\ spawn_local(t)
  \/ \E t \in Tids : t \in Range(nodes) /\ spawn_local_acquired(t)
  \/ \E t \in Tids : t \in Range(nodes) /\ subprocess_sh(t)
  \/ \E t \in Tids, rc \in {0} \cup FailCodes : t \in Range(nodes) /\ spawn_local_waited(t, rc)
  \/ \E t \in Tids : t \in Range(nodes) /\ spawn_local_cancelled(t)
  \/ \E t \in Tids : t \in Range(nodes) /\ spawn_slurm(t)
  \/ job_monitor
  \/ \E t \in Tids : t \in Range(nodes) /\ spawn_slurm_waited(t)
  \/ \E t \in Tids : t \in Range(nodes) /\ spawn_slurm_cancelled(t)
  \/ job_monitor_cancelled
  \/ keyboard_interrupt
  \/ manager_done
  \/ shutdown

SpecBackend == InitBackend /\ [][NextBackend]_vars

\* ---------------------------------------------------------- sacct parsing

\* The most rows after the header in one output of sacct.
MaxRows == 3

\* The ids of the jobs the backend has submitted.
SlurmJobIds == {"123", "124"}

\* A JobID field is a sequence of tokens: runs of digits, "_", ".", words.
IsDigits(tok) == tok \in {"0", "1", "123", "124"}

\* job_id_pattern.match(id).groupdict(), or "None" when the pattern does not
\* match:  ^(?P<jobid>\d+)(_(?P<arraystepid>\d+))?(\.(?P<stepid>(\d+|batch|extern)))?$
\* A group that took no part in the match is "" here (None in the source,
\* equally false).
job_id_pattern_match(id) ==
  LET n == Len(id)
      hasArray == n >= 3 /\ id[2] = "_" /\ IsDigits(id[3])
      k == IF hasArray THEN 4 ELSE 2
      hasStep == n >= k + 1 /\ id[k] = "." /\ (IsDigits(id[k + 1]) \/ id[k + 1] \in {"batch", "extern"})
      end == IF hasStep THEN k + 2 ELSE k
  IN IF n >= 1 /\ IsDigits(id[1]) /\ end = n + 1
       THEN [matched |-> TRUE,
             jobid |-> id[1],
             arraystepid |-> IF hasArray THEN id[3] ELSE "",
             stepid |-> IF hasStep THEN id[k + 1] ELSE ""]
       ELSE [matched |-> FALSE, jobid |-> "", arraystepid |-> "", stepid |-> ""]

\* dict(zip(header, fields))
ZipRow(header, fields) ==
  [key \in {header[i] : i \in 1..Min(Len(header), Len(fields))} |->
     fields[CHOOSE i \in 1..Min(Len(header), Len(fields)) : header[i] = key]]

\* dict.update
DictUpdate(d, r) ==
  [key \in DOMAIN d \cup DOMAIN r |-> IF key \in DOMAIN r THEN r[key] ELSE d[key]]

\* The body of the loop of parse_sacct, from line i of the output on.
RECURSIVE ParseLines(_, _, _, _)
ParseLines(header, lines, i, parsed) ==
  IF i > Len(lines) THEN parsed
  ELSE
    LET row == ZipRow(header, lines[i])
    IN IF "JobID" \notin DOMAIN row \/ ~job_id_pattern_match(row["JobID"]).matched
         THEN ParseLines(header, lines, i + 1, parsed)
         ELSE
           LET groups == job_id_pattern_match(row["JobID"])
               jid == groups.jobid
               job == IF jid \in DOMAIN parsed THEN parsed[jid] ELSE <<>>
           IN IF groups.stepid # "" \/ groups.arraystepid # ""
                THEN
                  LET started == IF jid \in DOMAIN parsed THEN job ELSE [_steps |-> <<>>]
                  IN ParseLines(header, lines, i + 1,
                       DictUpdate(parsed,
                         [j \in {jid} |-> [started EXCEPT !["_steps"] = Append(@, row)]]))
                ELSE
                  ParseLines(header, lines, i + 1,
                    DictUpdate(parsed,
                      [j \in {jid} |-> DictUpdate(job, DictUpdate(row, [_steps |-> <<>>]))]))

\* parse_sacct(data): the jobs, or the exception next(lines) raises on an
\* output without a header line.
parse_sacct(data) ==
  IF data = <<>>
    THEN [exc |-> "StopIteration", jobs |-> <<>>]
    ELSE [exc |-> "none", jobs |-> ParseLines(data[1], Tail(data), 1, <<>>)]

\* The lines sacct prints after the header, as their fields.
SacctLines ==
  { << <<"123">>, "COMPLETED" >>,
    << <<"123", ".", "batch">>, "COMPLETED" >>,
    << <<"123", ".", "0">>, "COMPLETED" >>,
    << <<"124">>, "COMPLETED" >>,
    << <<"124", "_", "1">>, "COMPLETED" >>,
    << <<"123", "+">>, "COMPLETED" >> }

SacctHeaders == { <<"JobID", "State">>, <<"State">> }

RECURSIVE LinesUpTo(_)
LinesUpTo(n) ==
  IF n = 0 THEN {<<>>}
  ELSE LinesUpTo(n - 1) \cup
       {Append(ls, l) : ls \in {x \in LinesUpTo(n - 1) : Len(x) = n - 1}, l \in SacctLines}

\* What the sacct command can print: nothing, or a header and some lines.
SacctOutputs ==
  {<<>>} \cup {<<h>> \o ls : h \in SacctHeaders, ls \in LinesUpTo(MaxRows)}

\* launch_sacct: parse_sacct on each output of the sacct command.
launch_sacct == [out \in SacctOutputs |-> parse_sacct(out)]

\* SlurmBatchJob._job_data of a parsed job, by its State.
AsJobData(job) ==
  (IF "State" \in DOMAIN job THEN {<<"State", job["State"]>>} ELSE {})
    \cup (IF "_steps" \in DOMAIN job THEN {<<"_steps", "rows">>} ELSE {})

\* One round of SlurmBackend.job_monitor on the output of the sacct
\* command: launch_sacct parses it, the data of each tracked job is stored,
\* a job that is done has its event set and is popped.  The loop catches
\* CancelledError only: an exception of the parser ends the coroutine.
job_monitor_sacct ==
  /\ backend = "slurm"
  /\ runner = "running"
  /\ monitor = "running"
  /\ jobs # {}
  /\ \E out \in SacctOutputs :
       LET r == launch_sacct[out]
           found == DOMAIN r.jobs \cap jobs
       IN /\ sacct_stdout' = out
          /\ sacct_data' = r
          /\ UNCHANGED <<files, save_pc, save_text, sbatch_kwargs, sbatch_args>>
          /\ IF r.exc # "none"
               THEN /\ monitor' = "stopped"
                    /\ last' = Op("job_monitor", "-", "RuntimeError")
                    /\ UNCHANGED <<jobs, job_data>>
               ELSE /\ job_data' = [j \in DOMAIN job_data |->
                                      IF j \in found THEN AsJobData(r.jobs[j]) ELSE job_data[j]]
                    /\ jobs' = {j \in jobs : ~(j \in found /\ job_is_done(AsJobData(r.jobs[j])))}
                    /\ last' = Op("job_monitor", "-", "ok")
                    /\ UNCHANGED monitor
  /\ UNCHANGED <<graphVars, lockVars, iterVars, edits, backend, directives,
                 sp, proc, cpu_sem, scancelled, runner>>

\* A SlurmBackend with some jobs submitted and its monitor running.
InitSacct ==
  /\ nodes = <<>>
  /\ obj = <<>>
  /\ edges = {}
  /\ locked = FALSE
  /\ stack = <<>>
  /\ txn = FALSE
  /\ entry = {}
  /\ itActive = FALSE
  /\ tasks = <<>>
  /\ pending = <<>>
  /\ failedInRun = {}
  /\ returnedInRun = {}
  /\ edits = 0
  /\ last = Op("init", "-", "ok")
  /\ NoOs
  /\ backend = "slurm"
  /\ directives = <<>>
  /\ sp = <<>>
  /\ proc = <<>>
  /\ cpu_sem = 0
  /\ jobs \in SUBSET SlurmJobIds \ {{}}
  /\ job_data = [j \in SlurmJobIds |-> {}]
  /\ scancelled = {}
  /\ monitor = "running"
  /\ runner = "running"

NextSacct == job_monitor_sacct

SpecSacct == InitSacct /\ [][NextSacct]_vars

\* ------------------------------------------------------------------ sbatch
\* An argument that is not given is "None", as str() prints it.

\* "if given: args.extend([flag, value])"
Flag(given, flag, value) ==
  IF given # "None" THEN <<flag, value>> ELSE <<>>

\* The command line sbatch() builds from its keyword arguments, before the
\* path of the script is appended.
sbatch_command(kw) ==
  <<"sbatch", "--parsable">>
    \o Flag(kw.name, "-J", kw.name)
    \o Flag(kw.stdin, "--input", kw.stdin)
    \o Flag(kw.stdout, "-o", kw.stdout)
    \o Flag(kw.stderr, "-e", kw.stdout)
    \o Flag(kw.cpus_per_task, "-c", kw.cpus_per_task)
    \o Flag(kw.mem, "--mem", kw.mem)
    \o Flag(kw.walltime, "-t", kw.walltime)
    \o Flag(kw.comment, "--comment", kw.comment)

\* The keyword arguments SlurmBackend.spawn gives to sbatch().
SbatchCalls ==
  [name : {"run.0"},
   stdin : {"None", "in.txt"},
   stdout : {"None", "out.log", "err.log"},
   stderr : {"None", "out.log", "err.log"},
   cpus_per_task : {"None", "4"},
   mem : {"None", "8G"},
   walltime : {"None", "1:00:00"},
   comment : {"{}"}]

\* sbatch(cmd, name=..., stdin=..., stdout=..., stderr=..., ...)
sbatch(kw) ==
  /\ backend = "slurm"
  /\ runner = "running"
  /\ sbatch_kwargs' = kw
  /\ sbatch_args' = Append(sbatch_command(kw), "script")
  /\ last' = Op("sbatch", "-", "ok")
  /\ UNCHANGED <<graphVars, lockVars, iterVars, edits, backendVars,
                 sacct_stdout, sacct_data, files, save_pc, save_text>>

\* A SlurmBackend that submits jobs.
InitSbatch ==
  /\ nodes = <<>>
  /\ obj = <<>>
  /\ edges = {}
  /\ locked = FALSE
  /\ stack = <<>>
  /\ txn = FALSE
  /\ entry = {}
  /\ itActive = FALSE
  /\ tasks = <<>>
  /\ pending = <<>>
  /\ failedInRun = {}
  /\ returnedInRun = {}
  /\ edits = 0
  /\ last = Op("init", "-", "ok")
  /\ NoOs
  /\ backend = "slurm"
  /\ directives = <<>>
  /\ sp = <<>>
  /\ proc = <<>>
  /\ cpu_sem = 0
  /\ jobs = {}
  /\ job_data = <<>>
  /\ scancelled = {}
  /\ monitor = "running"
  /\ runner = "running"

NextSbatch == \E kw \in SbatchCalls : sbatch(kw)

SpecSbatch == InitSbatch /\ [][NextSbatch]_vars

\* ------------------------------------------------------------ persistence

\* Task.to_json(): the node's obj, the task id under "id" with the
\* directives and the state.
to_json(task) ==
  [id |-> task.tid, after |-> task.after, before |-> task.before,
   input |-> task.input, output |-> task.output,
   status |-> task.status, returncode |-> task.returncode]

\* Workflow.serialize(): node-link data, the nodes in graph order.
serialize(G) ==
  [nodes |-> [i \in DOMAIN G.nodes |-> to_json(G.obj[G.nodes[i]])],
   links |-> {[source |-> e[1], target |-> e[2]] : e \in G.edges}]

\* Task(name=task_id, **obj) for a node's obj after obj.pop('id')
task_from_json(node) ==
  [tid |-> node.id, name |-> node.id, after |-> node.after,
   before |-> node.before, input |-> node.input, output |-> node.output,
   status |-> node.status, returncode |-> node.returncode]

RECURSIVE LoadNodes(_, _, _)
\* The loop of from_node_link_data from node i on, the workflow so far
\* being G: wf.new_task() adds each node outside a transaction, so update()
\* runs after every single addition and its error ends the loading.  The
\* links of the data are not read.
LoadNodes(data, i, G) ==
  IF i > Len(data.nodes) THEN {[ok |-> TRUE, graph |-> G, err |-> "none"]}
  ELSE
    LET G1 == add_node(G, task_from_json(data.nodes[i]))
    IN UNION { IF out.ok THEN LoadNodes(data, i + 1, WithEdges(G1, out.edges))
               ELSE {[ok |-> FALSE, graph |-> G, err |-> out.err]}
               : out \in update(G1) }

\* from_node_link_data(data): the possible outcomes
from_node_link_data(data) ==
  LoadNodes(data, 1, [nodes |-> <<>>, obj |-> <<>>, edges |-> {}])

\* wf = from_node_link_data(wf.serialize()): the workflow is replaced by its
\* reloaded copy, or the error of the loading is raised.
load ==
  /\ ~itActive
  /\ UNCHANGED <<backendVars, osVars>>
  /\ txn = FALSE
  /\ ~locked
  /\ nodes # <<>>
  /\ \E r \in from_node_link_data(serialize(Graph)) :
       /\ IF r.ok THEN SetGraph(r.graph) ELSE UNCHANGED graphVars
       /\ last' = Op("load", "-", IF r.ok THEN "ok" ELSE r.err)
  /\ UNCHANGED <<lockVars, iterVars, edits>>

\* Workflow.to_yaml(): the text of the node-link data, as its lines.
to_yaml(G) ==
  <<[key |-> "links", value |-> serialize(G).links]>> \o
    [i \in DOMAIN G.nodes |-> [key |-> "node", value |-> serialize(G).nodes[i]]]

\* save(workflow, path): open(lock_path, 'w') creates or truncates the lock
\* file; workflow.to_yaml() is then evaluated.
save_open ==
  /\ save_pc = "idle"
  /\ ~itActive /\ txn = FALSE
  /\ nodes # <<>>
  /\ files' = [files EXCEPT ![lock_path(SavePath)] = [exists |-> TRUE, text |-> <<>>]]
  /\ save_text' = to_yaml(Graph)
  /\ save_pc' = "open"
  /\ last' = Op("save", "open", "ok")
  /\ UNCHANGED <<graphVars, lockVars, iterVars, edits, backendVars, sacct_stdout, sacct_data,
                 sbatch_kwargs, sbatch_args>>

\* fp.write(text): the text reaches the lock file a part at a time.
save_write ==
  /\ save_pc = "open"
  /\ Len(files[lock_path(SavePath)].text) < Len(save_text)
  /\ files' = [files EXCEPT ![lock_path(SavePath)].text =
                 Append(@, save_text[Len(@) + 1])]
  /\ last' = Op("save", "write", "ok")
  /\ UNCHANGED <<graphVars, lockVars, iterVars, edits, backendVars, sacct_stdout, sacct_data,
                 save_pc, save_text, sbatch_kwargs, sbatch_args>>

\* The end of the with block: the lock file is closed with all its text.
save_close ==
  /\ save_pc = "open"
  /\ files[lock_path(SavePath)].text = save_text
  /\ save_pc' = "closed"
  /\ last' = Op("save", "close", "ok")
  /\ UNCHANGED <<graphVars, lockVars, iterVars, edits, backendVars, sacct_stdout, sacct_data,
                 files, save_text, sbatch_kwargs, sbatch_args>>

\* shutil.move(lock_path, path): a rename within one directory.
save_move ==
  /\ save_pc = "closed"
  /\ files' = [p \in DOMAIN files |->
                 IF p = SavePath THEN files[lock_path(SavePath)]
                 ELSE IF p = lock_path(SavePath) THEN NoFile
                 ELSE files[p]]
  /\ save_pc' = "idle"
  /\ last' = Op("save", "move", "ok")
  /\ UNCHANGED <<graphVars, lockVars, iterVars, edits, backendVars, sacct_stdout, sacct_data,
                 save_text, sbatch_kwargs, sbatch_args>>

\* The process dies inside save(); the files stay as they are and the
\* workflow is run again.
save_crash ==
  /\ save_pc # "idle"
  /\ save_pc' = "idle"
  /\ last' = Op("save", "crash", "-")
  /\ UNCHANGED <<graphVars, lockVars, iterVars, edits, backendVars, sacct_stdout, sacct_data,
                 files, save_text, sbatch_kwargs, sbatch_args>>

\* A workflow made by build_workflow is saved, added to and saved again.
NextSave ==
  \/ save_open
  \/ save_write
  \/ save_close
  \/ save_move
  \/ save_crash
  \/ \E task \in Tasks : save_pc = "idle" /\ add_task(task)

SpecSave == InitRun /\ [][NextSave]_vars

\* Workflows made by build_workflow, edited by add_task, remove_task and
\* compose, saved and loaded.
NextSerial ==
  \/ load
  \/ \E task \in Tasks : add_task(task)
  \/ \E task_id \in Tids : remove_task(task_id)
  \/ \E other \in BuiltWorkflows : compose(other)

SpecSerial == InitRun /\ [][NextSerial]_vars

\* ------------------------------------------------- runner.py: AsyncRunner

\* The backends of runner.py, whose spawn returns (task_id, returncode).
RunnerBackends == {"LocalBackend", "SlurmBackend"}

\* What the future of a backend's spawn ends with: a returncode (0 or the
\* exit code of the command), a null returncode (SlurmBackend.spawn when
\* sbatch fails), or an exception (LocalBackend.spawn has no handler for an
\* error of open() on the log files).
FutureResults(b) ==
  {[exc |-> FALSE, rc |-> <<c>>] : c \in {0} \cup FailCodes}
    \cup (IF b = "SlurmBackend" THEN {[exc |-> FALSE, rc |-> None]} ELSE {})
    \cup (IF b = "LocalBackend" THEN {[exc |-> TRUE, rc |-> None]} ELSE {})

\* The methods of Workflow a runner calls, with the least and the greatest
\* number of arguments each takes after self.
WorkflowMethods ==
  [resume |-> <<0, 0>>, retry |-> <<0, 0>>, reset |-> <<0, 0>>,
   fail |-> <<1, 2>>, complete |-> <<1, 2>>, get_task |-> <<1, 1>>]

\* Calling workflow.<method> with n arguments: "ok", or the exception raised.
Call(method, n) ==
  IF method \notin DOMAIN WorkflowMethods THEN "AttributeError"
  ELSE IF n < WorkflowMethods[method][1] \/ n > WorkflowMethods[method][2]
    THEN "TypeError"
  ELSE "ok"

\* AsyncRunner.spawn(task_id, task_directives): the backend's spawn is
\* scheduled as a future with handle as its callback.
runner_spawn(t) ==
  /\ backend \in RunnerBackends
  /\ Spawnable(t)
  /\ sp' = [sp EXCEPT ![t].pc = "wait"]
  /\ last' = Op("spawn", t, "scheduled")
  /\ UNCHANGED <<graphVars, lockVars, iterVars, edits, backend, osVars, directives,
                 proc, cpu_sem, jobs, job_data, scancelled, monitor, runner>>

\* The future of backend.spawn ends with a result.
spawn_result(t, res) ==
  /\ backend \in RunnerBackends
  /\ runner = "running"
  /\ sp[t].pc = "wait"
  /\ res \in FutureResults(backend)
  /\ sp' = [sp EXCEPT ![t] = [pc |-> "done", reserved |-> 0,
                               exc |-> res.exc, rc |-> res.rc]]
  /\ last' = Op("spawn_result", t, "done")
  /\ UNCHANGED <<graphVars, lockVars, iterVars, edits, backend, osVars, directives,
                 proc, cpu_sem, jobs, job_data, scancelled, monitor, runner>>

\* What the try block of AsyncRunner.handle does with a future's result:
\* task.result() raises the future's exception; a null returncode calls
\* workflow.reset(task_id); any other calls workflow.send(task_id, rc).
handle_outcome(f) ==
  IF f.exc THEN "Exception"
  ELSE IF f.rc = None THEN Call("reset", 1)
  ELSE Call("send", 2)

\* AsyncRunner.handle(task), the callback of a finished spawn.  Every
\* outcome of the try block is an exception (Workflow.reset takes no
\* argument and Workflow has no send), so the handler logs it and stops the
\* loop; start() then leaves run_until_complete and closes the loop.
handle(t) ==
  /\ backend \in RunnerBackends
  /\ runner = "running"
  /\ sp[t].pc = "done"
  /\ handle_outcome(sp[t]) # "ok"
  /\ runner' = "stopped"
  /\ sp' = [sp EXCEPT ![t].pc = "returned"]
  /\ last' = Op("handle", t, handle_outcome(sp[t]))
  /\ UNCHANGED <<graphVars, lockVars, iterVars, edits, backend, osVars, directives,
                 proc, cpu_sem, jobs, job_data, scancelled, monitor>>

\* AsyncRunner.start() on a workflow made by build_workflow, with or
\* without dependencies between its tasks.
InitRunner ==
  /\ \E W \in BuiltWorkflows \cup {IndependentTasks(n) : n \in 1..Cardinality(Tids)} :
       /\ nodes = W.nodes
       /\ obj = W.obj
       /\ edges = W.edges
  /\ NoOs
  /\ backend \in RunnerBackends
  /\ directives = [t \in Range(nodes) |-> [cmd |-> TRUE, cpus |-> 0]]
  /\ sp = [t \in Range(nodes) |->
             [pc |-> "idle", reserved |-> 0, exc |-> FALSE, rc |-> None]]
  /\ proc = [t \in Range(nodes) |-> "none"]
  /\ cpu_sem = 0
  /\ jobs = {}
  /\ job_data = [t \in Range(nodes) |-> {}]
  /\ scancelled = {}
  /\ monitor = "none"
  /\ runner = "running"
  /\ locked = FALSE
  /\ stack = <<>>
  /\ txn = FALSE
  /\ entry = {}
  /\ itActive = FALSE
  /\ tasks = <<>>
  /\ pending = <<>>
  /\ failedInRun = {}
  /\ returnedInRun = {}
  /\ edits = 0
  /\ last = Op("init", "-", "ok")

NextRunner ==
  \/ last.op = "init" /\ iter
  \/ runner = "running" /\ next
  \/ \E t \in Tids : t \in Range(nodes) /\ runner_spawn(t)
  \/ \E t \in Tids : \E res \in FutureResults(backend) :
       t \in Range(nodes) /\ spawn_result(t, res)
  \/ \E t \in Tids : t \in Range(nodes) /\ handle(t)

SpecRunner == InitRunner /\ [][NextRunner]_vars

\* ------------------------------------------------------------- properties

\* next() has just returned a task.
Returned == last.op = "next" /\ last.arg \in Tids

\* The tasks that depend on tid directly or through other tasks.
TransitiveDependents(tid) ==
  {d \in Range(nodes) : tid \in Descendants(edges, successors(edges, d))}

Count(s, x) == Cardinality({i \in DOMAIN s : s[i] = x})

\* C1: when next() returns a task, every prerequisite of the task is
\* complete (terminal and successful).
C1_ReturnedPrerequisitesComplete ==
  Returned => \A d \in successors(edges, last.arg) : obj[d].status = "complete"

\* C2: when next() returns a task, no prerequisite of the task is new or
\* pending: each has entered a terminal state.
C2_ReturnedAfterPrerequisitesTerminal ==
  Returned => \A d \in successors(edges, last.arg) :
                obj[d].status \in {"complete", "failed"}

\* C2 witness: next() returned a task that has a prerequisite.
C2_Witness == Returned /\ successors(edges, last.arg) # {}

\* C3: is_ready(task) is true exactly when the task is new and every
\* prerequisite is complete.
C3_ReadyIffNewAndPrerequisitesComplete ==
  \A t \in Range(nodes) :
    is_ready(Graph, t) <=>
      /\ obj[t].status = "new"
      /\ \A d \in successors(edges, t) : obj[d].status = "complete"

\* C4: the edge set has no directed cycle, after every add_task, transaction
\* exit, remove_task and compose, whether it returned or raised.
C4_GraphAcyclic ==
  /\ \A e \in edges : e[1] \in Range(nodes) /\ e[2] \in Range(nodes)
  /\ \A n \in Range(nodes) : n \notin Descendants(edges, successors(edges, n))

\* C4 witness: linking was asked for an edge that closes a cycle.
C4_Witness == last.ret = "NotDagError" /\ edges # {}

\* C5: when the linking at the end of a transaction fails, none of the
\* tasks added in the transaction is in the workflow afterwards.
C5_FailedCommitRemovesStaged ==
  (last.op = "exit" /\ last.ret # "ok") =>
    \A t \in Range(stack) : t \notin Range(nodes)

\* C6: after a transaction whose body raised, no task added in it is left
\* (the nodes are among those at entry) and the lock is released.
C6_BodyErrorRollsBackAndUnlocks ==
  last.op = "exit_error" => (Range(nodes) \subseteq entry /\ ~locked)

\* add_task(task) does not pass validation: its id is taken, or linking the
\* workflow with the task added raises.
FailsValidation(task) ==
  \/ task.tid \in Range(nodes)
  \/ \A out \in update(add_node(Graph, task)) : ~out.ok

\* C7: an add_task outside a transaction that fails validation raises and
\* leaves the node set and the edge set as they were.
C7_InvalidAddRaisesUnchanged ==
  [][\A task \in Tasks :
       (~txn /\ FailsValidation(task) /\ add_task(task)) =>
         (last'.ret # "ok" /\ nodes' = nodes /\ edges' = edges)]_vars

\* C8: when a task is failed, every task that transitively depends on it and
\* is new becomes failed with the dependency-failure returncode, and no task
\* that does not transitively depend on it changes.
C8_FailCascades ==
  [][\A t \in Tids :
       (last'.op = "fail" /\ last'.arg = t /\ last' # last) =>
         /\ \A d \in TransitiveDependents(t) :
              obj[d].status = "new" =>
                (obj'[d].status = "failed"
                   /\ obj'[d].returncode = <<DependencyFailureCode>>)
         /\ \A u \in Range(nodes) \ (TransitiveDependents(t) \cup {t}) :
              obj'[u] = obj[u]]_vars

\* C8 witness: a failure reached a task that depends on the failed one only
\* through another task.
C8_Witness ==
  /\ last.op = "fail"
  /\ \E d \in TransitiveDependents(last.arg) :
       /\ last.arg \notin successors(edges, d)
       /\ obj[d].status = "failed"
       /\ obj[d].returncode = <<DependencyFailureCode>>

\* C9 as stated: no transitive dependent of a task that failed in the run
\* is returned by the iterator at any time of the run.
C9_DependentsNeverReturnedInRun ==
  \A f \in failedInRun : TransitiveDependents(f) \cap returnedInRun = {}

\* C9 amended: once a task has failed in a run, next() returns no transitive
\* dependent of it, and while the run lasts none of them is new.
C9_DependentsNotReturnedAfterFailure ==
  /\ Returned => \A f \in failedInRun : last.arg \notin TransitiveDependents(f)
  /\ itActive => \A f \in failedInRun : \A d \in TransitiveDependents(f) :
                   obj[d].status # "new"

\* C9 witness: next() has dropped from the remaining tasks a dependent that
\* the failure of its prerequisite failed, without ever returning it.
C9_Witness ==
  /\ last.op = "next"
  /\ \E f \in failedInRun : \E d \in TransitiveDependents(f) :
       /\ obj[d].returncode = <<DependencyFailureCode>>
       /\ d \notin Range(tasks)
       /\ d \notin returnedInRun

\* C10: no task is twice in remaining or pending, none is in both, and a
\* task next() returns is in pending once and no longer remaining.
C10_NoTaskHandedOutTwice ==
  /\ \A t \in Tids : Count(tasks, t) <= 1 /\ Count(pending, t) <= 1
  /\ Range(tasks) \cap Range(pending) = {}
  /\ Returned => (Count(pending, last.arg) = 1 /\ obj[last.arg].status = "pending")

\* C10 witness: two returned tasks are in flight at once.
C10_Witness ==
  /\ Returned
  /\ Cardinality({t \in Range(pending) : obj[t].status = "pending"}) >= 2

\* next() has signalled the end of the workflow (StopIteration; the manager
\* then sets the workflow-complete event).
EndOfWorkflow == last.op = "next" /\ last.ret = "StopIteration"

\* C11: a run of a fresh workflow in which every spawn ends reaches the end
\* of the workflow with every task complete or failed, and when no command
\* failed every task is complete with returncode 0.
C11_RunEndsAllTerminal ==
  /\ <>(EndOfWorkflow /\ \A t \in Range(nodes) : is_done(obj[t]))
  /\ [](EndOfWorkflow /\ failedInRun = {} =>
         \A t \in Range(nodes) :
           obj[t].status = "complete" /\ obj[t].returncode = <<0>>)

\* C11 witness: the chain a, b after a, c after b has run to its end with
\* three tasks complete.
C11_Witness ==
  /\ EndOfWorkflow
  /\ edges = {<<"b", "a">>, <<"c", "b">>}
  /\ \A t \in Range(nodes) : obj[t].status = "complete"

\* A step that changes the status of tasks, not the set of task objects.
StatusStep ==
  /\ last' # last
  /\ last'.op \notin {"add_task", "remove_task", "compose", "exit", "exit_error"}

\* C12 as stated: every status change is new -> pending, pending -> complete,
\* pending -> failed, or a reset to new.
C12_OnlyListedTransitions ==
  [][StatusStep =>
       \A t \in Range(nodes) \cap Range(nodes') :
         \/ obj'[t].status = obj[t].status
         \/ obj[t].status = "new" /\ obj'[t].status = "pending"
         \/ obj[t].status = "pending" /\ obj'[t].status \in {"complete", "failed"}
         \/ /\ obj'[t].status = "new"
            /\ last'.op \in {"reset", "retry", "resume", "reset_task"}]_vars

\* C12 amended: as C12, and new -> failed with the dependency-failure
\* returncode, made by the propagation of a fail().
C12_TransitionsWithCascade ==
  [][StatusStep =>
       \A t \in Range(nodes) \cap Range(nodes') :
         \/ obj'[t].status = obj[t].status
         \/ obj[t].status = "new" /\ obj'[t].status = "pending"
         \/ obj[t].status = "pending" /\ obj'[t].status \in {"complete", "failed"}
         \/ /\ obj'[t].status = "new"
            /\ last'.op \in {"reset", "retry", "resume", "reset_task"}
         \/ /\ obj[t].status = "new" /\ obj'[t].status = "failed"
            /\ obj'[t].returncode = <<DependencyFailureCode>>
            /\ last'.op = "fail" /\ t \in TransitiveDependents(last'.arg)]_vars

\* C12 witness: a fail() has just failed a task and, by propagation, a new
\* dependent, in a workflow where another task went from pending to complete.
C12_Witness ==
  /\ last.op = "fail"
  /\ obj[last.arg].status = "failed"
  /\ \E d \in Range(nodes) : obj[d].returncode = <<DependencyFailureCode>>
  /\ \E t \in Range(nodes) : obj[t].status = "complete"

\* C13: when a spawn has returned, its task is terminal (complete or
\* failed), never still pending.
C13_SpawnReturnsTerminal ==
  \A t \in Range(nodes) :
    (backend # "none" /\ sp[t].pc = "returned") => is_done(obj[t])

\* C14: a task without cmd, once its spawn has returned, is complete with
\* returncode 0, and no subprocess or Slurm job was made for it.
C14_NoCmdCompletes ==
  \A t \in Range(nodes) :
    (backend # "none" /\ sp[t].pc = "returned" /\ ~directives[t].cmd) =>
      /\ obj[t].status = "complete"
      /\ obj[t].returncode = <<0>>
      /\ proc[t] = "none"
      /\ job_data[t] = {} /\ t \notin jobs

\* The subprocesses of local spawns that are running.
Running == {t \in Range(nodes) : proc[t] = "running"}

\* C15: while independent tasks run on the local backend, no more than
\* Capacity subprocesses run at the same time.
C15_AtMostCapacitySubprocesses ==
  (backend = "local" /\ runner = "running") => Cardinality(Running) <= Capacity

RECURSIVE Held(_)
\* The permits held by the spawns of the tasks of S.
Held(S) ==
  IF S = {} THEN 0
  ELSE LET t == CHOOSE x \in S : TRUE IN sp[t].reserved + Held(S \ {t})

\* C16: a local spawn waiting for its subprocess holds as many permits as
\* its task's cpus; the permits held and the free ones add up to Capacity;
\* a spawn that is not in flight holds none.
C16_PermitsHeldAndReleased ==
  backend = "local" =>
    /\ \A t \in Range(nodes) :
         /\ sp[t].pc = "wait" => sp[t].reserved = directives[t].cpus
         /\ sp[t].pc \in {"idle", "returned", "raised"} => sp[t].reserved = 0
    /\ cpu_sem >= 0
    /\ cpu_sem + Held(Range(nodes)) = Capacity

\* C16 witness: a spawn cancelled while its subprocess ran, holding permits,
\* has returned and every permit is free again.
C16_Witness ==
  /\ backend = "local"
  /\ last.op = "cancelled"
  /\ proc[last.arg] = "running"
  /\ directives[last.arg].cpus > 0
  /\ cpu_sem = Capacity

\* C17: a spawn cancelled where it was suspended has returned with its task
\* failed with returncode -15.
C17_CancelledSpawnFailsTask ==
  last.op = "cancelled" =>
    /\ sp[last.arg].pc = "returned"
    /\ obj[last.arg].status = "failed"
    /\ obj[last.arg].returncode = <<CancelCode>>

\* C17 witness: a local spawn has been cancelled while it waited for
\* permits (no subprocess yet), or a Slurm spawn while it waited for its
\* event (scancel issued for its job).
C17_Witness ==
  /\ last.op = "cancelled"
  /\ \/ backend = "local" /\ proc[last.arg] = "none" /\ directives[last.arg].cpus > 0
     \/ backend = "slurm" /\ last.arg \in scancelled /\ last.arg \in jobs

\* C18: when the runner has shut down, no subprocess a local spawn started
\* is still running and scancel was issued for every job still tracked.
C18_NothingOutlivesShutdown ==
  runner = "stopped" =>
    /\ Running = {}
    /\ jobs \subseteq scancelled

\* C19: the cancelled job monitor has issued scancel for every job in the
\* tracking map, and none when the map is empty.
C19_MonitorCancelScancelsJobs ==
  last.op = "job_monitor_cancelled" =>
    IF jobs # {} THEN last.ret = "scancel" /\ jobs \subseteq scancelled
    ELSE last.ret = "none"

\* C20: a job is done exactly when its State is one of the inactive states
\* (so not when the State is missing or unknown), and it is a success
\* exactly when its State is COMPLETED.
C20_DoneIffInactiveState ==
  \A j \in DOMAIN job_data :
    /\ job_is_done(job_data[j]) <=> Get(job_data[j], "State") \in inactive_states
    /\ job_is_ok(job_data[j]) = "True" <=> Get(job_data[j], "State") = "COMPLETED"

\* A job is done, as the specification defines it: its State is one of the
\* inactive states.
StateInactive(data) == Get(data, "State") \in inactive_states

\* C21: a poll that reports a job done (State inactive) sets its event and
\* drops it from the tracking map, and a job that is not done stays in the
\* map with its event unset; the spawn resumed by the event marks its task
\* complete when the job's State is COMPLETED and failed otherwise.
C21_DoneJobsResolved ==
  [][/\ last'.op = "job_monitor" =>
          \A j \in jobs :
            IF StateInactive(job_data'[j])
              THEN j \notin jobs' /\ EventSet(j)'
              ELSE j \in jobs' /\ ~EventSet(j)'
     /\ (backend = "slurm" /\ last'.op = "spawn" /\ sp[last'.arg].pc = "wait") =>
          /\ sp'[last'.arg].pc = "returned"
          /\ obj'[last'.arg].status =
               IF Get(job_data[last'.arg], "State") = "COMPLETED"
                 THEN "complete" ELSE "failed"
    ]_vars

\* C22: the Slurm backend never has more than max_concurrency jobs that are
\* submitted and not yet done (entries of its tracking map).
C22_OutstandingJobsBounded ==
  backend = "slurm" => Cardinality(jobs) <= max_concurrency

\* The callback of a finished spawn has just run for task last'.arg.
Handled == last'.op = "handle"

\* C23: when a spawn has reported a null returncode, handling it resets the
\* task to new with the run going on, so that the iterator hands it out
\* again.
C23_NullReturncodeRequeues ==
  [][(Handled /\ ~sp[last'.arg].exc /\ sp[last'.arg].rc = None) =>
       /\ obj'[last'.arg].status = "new"
       /\ runner' = "running"
    ]_vars

\* C24: when the spawn of a task has raised, handling it fails the task and
\* the runner goes on with the remaining tasks (the loop is not stopped).
C24_SpawnFatalFailsTaskOnly ==
  [][(Handled /\ sp[last'.arg].exc) =>
       /\ obj'[last'.arg].status = "failed"
       /\ runner' = "running"
    ]_vars

\* C25: serializing a workflow and loading it back gives a workflow with
\* the same task ids, the same edges and equal directives.
C25_SerializeRoundTrip ==
  [][last'.op = "load" =>
       /\ last'.ret = "ok"
       /\ Range(nodes') = Range(nodes)
       /\ edges' = edges
       /\ \A t \in Range(nodes) : to_json(obj'[t]) = to_json(obj[t])
    ]_vars

\* The edges the directives of the tasks of G ask for.
DirectiveEdges(G) ==
  LET steps == UpdateSteps(G, 1)
  IN UNION {{StepEdge(steps[i], m) : m \in StepMatches(G, steps[i])} : i \in DOMAIN steps}

\* What compose(other) is to leave of the tasks: those of other that were
\* absent are added, a failed task of self with a tid of other is replaced
\* by other's task, and every other task of self is as it was.
Merged(other) ==
  LET O == Range(other.nodes)
      N == Range(nodes)
  IN /\ Range(nodes') = N \cup O
     /\ \A t \in O \ N : obj'[t] = other.obj[t]
     /\ \A t \in O \cap N :
          obj'[t] = IF is_failed(obj[t]) THEN other.obj[t] ELSE obj[t]
     /\ \A t \in N \ O : obj'[t] = obj[t]

ResetClass(op) ==
  CASE op = "resume" -> {"pending"}
    [] op = "retry" -> {"pending", "failed"}
    [] op = "reset" -> {"new", "pending", "complete", "failed"}

\* The tasks O with those of the given statuses reset.
ResetIn(O, statuses) ==
  [t \in DOMAIN O |->
     IF O[t].status \in statuses
       THEN [O[t] EXCEPT !.status = "new", !.returncode = None]
       ELSE O[t]]

\* C27: resume, retry and reset each reset exactly the tasks of their class
\* (pending; pending and failed; all) and leave the status and returncode of
\* every other task, and applying one a second time changes nothing.
C27_BulkResetsIdempotent ==
  [][last'.op \in {"resume", "retry", "reset"} =>
       /\ \A t \in Range(nodes) :
            IF obj[t].status \in ResetClass(last'.op)
              THEN obj'[t].status = "new" /\ obj'[t].returncode = None
              ELSE /\ obj'[t].status = obj[t].status
                   /\ obj'[t].returncode = obj[t].returncode
       /\ ResetIn(obj', ResetClass(last'.op)) = obj'
    ]_vars

\* C27 witness: retry has reset a task that failed in the last run and a
\* pending one, and a complete task has kept its returncode.
C27_Witness ==
  /\ last.op = "retry"
  /\ \E t \in failedInRun : t \in Range(nodes) /\ obj[t].status = "new"
  /\ \E t \in returnedInRun \ failedInRun : t \in Range(nodes) /\ obj[t].status = "new"
  /\ \E t \in Range(nodes) : obj[t].status = "complete" /\ obj[t].returncode = <<0>>

\* The task mappings a workflow was built from, in the order given.
Mappings == [i \in DOMAIN nodes |-> obj[nodes[i]]]

\* The tasks of list l, in order, that declare "before: b".
DeclaredBefore(l, b) ==
  LET sel == SelectSeq(l, LAMBDA t : b \in Range(t.before))
  IN [i \in DOMAIN sel |-> sel[i].tid]

\* The list l with every "before: B" on a task A replaced by "after: A" on
\* task B.
AsAfter(l) ==
  [i \in DOMAIN l |->
     [l[i] EXCEPT !.before = <<>>, !.after = l[i].after \o DeclaredBefore(l, l[i].tid)]]

\* Every "before" value of the list names a task of the list.
BeforeNamesTasks(l) ==
  \A i \in DOMAIN l : Range(l[i].before) \subseteq {l[j].tid : j \in DOMAIN l}

\* C28: a task list with "before: B" on A, and the list with "after: A" on
\* B in its place, are both accepted or both rejected by build_workflow,
\* and when accepted they give the same edges.
C28_BeforeIsReverseAfter ==
  (last.op = "build_workflow" /\ BeforeNamesTasks(Mappings)) =>
    LET outs == update(Staged(AsAfter(Mappings)))
    IN /\ last.ret = "ok" <=> \E o \in outs : o.ok
       /\ last.ret = "ok" => \A o \in outs : o.ok /\ o.edges = edges

\* C28 witness: an accepted list in which a task declares "before" another,
\* with the edge from that other task to it.
C28_Witness ==
  /\ last.op = "build_workflow" /\ last.ret = "ok"
  /\ \E a, b \in Range(nodes) :
       /\ a # b
       /\ obj[a].before = <<b>>
       /\ obj[b].after = <<>>
       /\ <<b, a>> \in edges

\* Task q reads a value that task p writes: an input pattern of q matches
\* an output value of p.
Reads(q, p) ==
  \E i \in DOMAIN q.input : \E j \in DOMAIN p.output :
    search_pattern(q.input[i], p.output[j])

\* The tasks of list l, in order, that write what q reads.
Providers(l, q) ==
  LET sel == SelectSeq(l, LAMBDA t : Reads(q, t))
  IN [i \in DOMAIN sel |-> sel[i].tid]

\* The list l with the input directive of every task replaced by "after"
\* naming the tasks that write what it reads.
AsExplicitAfter(l) ==
  [i \in DOMAIN l |->
     [l[i] EXCEPT !.input = <<>>, !.after = l[i].after \o Providers(l, l[i])]]

\* The workflow of the same tasks, in their present states, linked by
\* explicit "after" directives (one of the outcomes of its update()).
ExplicitWorkflows ==
  LET l == AsExplicitAfter(Mappings)
  IN {WithEdges(Staged(l), out.edges) : out \in {o \in update(Staged(l)) : o.ok}}

\* C29: in a built workflow every task that reads a value another task
\* writes has the edge to that task, and at every point of a run the
\* iterator hands out the same task as for the same tasks linked by
\* explicit "after".
C29_InputLinksLikeAfter ==
  /\ \A q, p \in Range(nodes) : (q # p /\ Reads(obj[q], obj[p])) => <<q, p>> \in edges
  /\ ExplicitWorkflows # {}
  /\ \A G2 \in ExplicitWorkflows :
       /\ G2.edges = edges
       /\ Scan(G2, tasks, Len(tasks)) = Scan(Graph, tasks, Len(tasks))

\* C29 witness: the task that writes f has completed and the task that
\* reads f has then been handed out.
C29_Witness ==
  /\ last.op = "next" /\ last.arg \in Range(nodes)
  /\ \E p \in Range(nodes) :
       /\ p # last.arg
       /\ Reads(obj[last.arg], obj[p])
       /\ obj[p].status = "complete"

\* C30: inside a transaction the writer can enter a transaction again:
\* a nested __enter__, and a compose (which opens its own transaction),
\* can acquire the lock instead of waiting for it.
C30_NestedEnterProceeds ==
  txn => /\ ENABLED enter
         /\ \E other \in OtherWorkflows : ENABLED compose(other)

\* The rows of the output data that parse_sacct can parse.
ParsedRows(data) ==
  LET rows == [i \in 1..(Len(data) - 1) |-> ZipRow(data[1], data[i + 1])]
  IN SelectSeq(rows, LAMBDA row :
       "JobID" \in DOMAIN row /\ job_id_pattern_match(row["JobID"]).matched)

\* Row is a step or array-step row.
IsStepRow(row) ==
  LET groups == job_id_pattern_match(row["JobID"])
  IN groups.stepid # "" \/ groups.arraystepid # ""

\* The rows of job jid among rows: its step rows, its top-level rows.
StepRowsOf(rows, jid) ==
  SelectSeq(rows, LAMBDA row :
    job_id_pattern_match(row["JobID"]).jobid = jid /\ IsStepRow(row))

TopRowsOf(rows, jid) ==
  SelectSeq(rows, LAMBDA row :
    job_id_pattern_match(row["JobID"]).jobid = jid /\ ~IsStepRow(row))

\* C31: whatever the order of the rows, parse_sacct returns one job for
\* each job id of a row it can parse, whose "_steps" are exactly the step
\* and array-step rows of that job, and which has the fields of the job's
\* top-level row.
C31_StepsUnderParentJob ==
  (last.op = "job_monitor" /\ sacct_data.exc = "none") =>
    LET rows == ParsedRows(sacct_stdout)
    IN /\ DOMAIN sacct_data.jobs =
            {job_id_pattern_match(rows[i]["JobID"]).jobid : i \in DOMAIN rows}
       /\ \A jid \in DOMAIN sacct_data.jobs :
            /\ sacct_data.jobs[jid]["_steps"] = StepRowsOf(rows, jid)
            /\ TopRowsOf(rows, jid) # <<>> =>
                 LET top == TopRowsOf(rows, jid)[Len(TopRowsOf(rows, jid))]
                 IN \A key \in DOMAIN top : sacct_data.jobs[jid][key] = top[key]

\* C32: whatever sacct printed, the parser returns (it raises nothing) and
\* the job monitor is still running after the round, polling for the jobs
\* that are left.
C32_ParseMissNeverFatal ==
  last.op = "job_monitor" => (sacct_data.exc = "none" /\ monitor = "running")

\* C33: every step of save, a crash included, leaves the file at the path
\* as it was or makes it the complete new document.
C33_SaveAtomicOnDisk ==
  [][files'[SavePath] # files[SavePath] =>
       /\ files'[SavePath].exists
       /\ files'[SavePath].text = save_text
       /\ save_text = to_yaml(Graph)]_vars

\* C33 witness: a save crashed with part of the new document in the lock
\* file, while the path holds the complete document of an earlier save.
C33_Witness ==
  /\ last = Op("save", "crash", "-")
  /\ files[SavePath].exists
  /\ files[SavePath].text # to_yaml(Graph)
  /\ files[lock_path(SavePath)].exists
  /\ files[lock_path(SavePath)].text # <<>>
  /\ Len(files[lock_path(SavePath)].text) < Len(to_yaml(Graph))

\* C34: in the diamond, once a is complete a call of next() made while b
\* or c is still new and neither is terminal returns b or c, so two
\* successive calls hand out both; and next() returns d only when b and c
\* are both complete.
C34_DiamondBranchesConcurrent ==
  [][(last'.op = "next" /\ itActive) =>
       /\ ( /\ obj["a"].status = "complete"
            /\ {obj["b"].status, obj["c"].status} \subseteq {"new", "pending"}
            /\ "new" \in {obj["b"].status, obj["c"].status} )
          => ( /\ last'.arg \in {"b", "c"}
               /\ obj[last'.arg].status = "new"
               /\ obj'[last'.arg].status = "pending" )
       /\ last'.arg = "d" =>
            (obj["b"].status = "complete" /\ obj["c"].status = "complete")]_vars

\* C34 witness: b and c have both been handed out and neither is terminal.
C34_Witness ==
  /\ last.op = "next" /\ last.arg \in {"b", "c"}
  /\ obj["a"].status = "complete"
  /\ obj["b"].status = "pending" /\ obj["c"].status = "pending"

\* The place of task t in the sequence s.
IndexOf(s, t) == CHOOSE i \in DOMAIN s : s[i] = t

\* C35: a call of next() with a ready task among the remaining ones
\* returns the ready task latest in the remaining list, starts it and moves
\* it to pending; of the others it removes the terminal tasks that come
\* after the returned one and keeps the rest in place and in order.
C35_ReverseScan ==
  [][(last'.op = "next" /\ itActive /\ \E i \in DOMAIN tasks : is_ready(Graph, tasks[i])) =>
       LET k == CHOOSE i \in DOMAIN tasks :
                  /\ is_ready(Graph, tasks[i])
                  /\ \A j \in DOMAIN tasks : is_ready(Graph, tasks[j]) => j <= i
       IN /\ last'.arg = tasks[k]
          /\ obj' = [obj EXCEPT ![tasks[k]].status = "pending"]
          /\ pending' = Append(SelectSeq(pending, LAMBDA t : ~is_done(obj[t])), tasks[k])
          /\ tasks' = SubSeq(tasks, 1, k - 1) \o
                        SelectSeq(SubSeq(tasks, k + 1, Len(tasks)), LAMBDA t : ~is_done(obj[t]))]_vars

\* C35 witness: next() has returned a task and has removed a terminal task
\* it passed on the way, one added later and never handed out.
C35_Witness ==
  /\ last.op = "next" /\ last.arg \in Range(nodes)
  /\ \E t \in Range(nodes) :
       /\ IndexOf(nodes, t) > IndexOf(nodes, last.arg)
       /\ is_done(obj[t])
       /\ t \notin Range(tasks) /\ t \notin returnedInRun

\* C36: a local spawn waiting for permits can always go on: a permit is
\* free, or a spawn that holds permits has, or is about to start, a
\* subprocess whose exit will release them.  (Otherwise the permits are all held by spawns that wait
\* for more, and none of them ever acquires its request.)
C36_AcquireNeverDeadlocks ==
  (backend = "local" /\ runner = "running") =>
    \A t \in DOMAIN sp :
      sp[t].pc = "acquire" =>
        \/ cpu_sem > 0
        \/ \E u \in DOMAIN sp : sp[u].pc \in {"retry", "wait"} /\ sp[u].reserved > 0

\* C37: a local spawn the system refused a process keeps its permits and
\* its task stays pending while it sleeps and retries; a step of the retry
\* loop leaves it sleeping or waiting for the subprocess it has started, and
\* the refusal is returned or raised by no spawn.
C37_RefusalNeverSurfaces ==
  [][\A t \in DOMAIN sp :
       sp[t].pc = "retry" =>
         /\ obj[t].status = "pending"
         /\ sp[t].reserved = directives[t].cpus
         /\ proc[t] = "none"
         /\ \/ sp'[t] = sp[t] /\ obj'[t] = obj[t]
            \/ /\ sp'[t] = [pc |-> "wait", reserved |-> sp[t].reserved]
               /\ proc'[t] = "running"
               /\ obj'[t] = obj[t]
            \/ /\ runner = "cancelling"
               /\ last' = Op("cancelled", t, "returned")]_vars

\* C37 witness: the system has accepted the process of a task it had
\* refused; the spawn waits for the subprocess with its permits.
C37_Witness ==
  /\ last.op = "retry" /\ last.ret = "waiting"
  /\ sp[last.arg].pc = "wait"
  /\ sp[last.arg].reserved > 0
  /\ proc[last.arg] = "running"

\* C38: after a transaction has exited, by a commit, by an error in its
\* body or by an error of the linking at the commit, the lock is free and
\* the rollback stack is empty.
C38_ExitLeavesUnlocked ==
  (last.op \in {"exit", "exit_error"}) => (~locked /\ stack = <<>>)

\* A task that was pending when the iterator was created: it is pending and
\* this iterator has not handed it out.
PendingBefore(t) == itActive /\ obj[t].status = "pending" /\ t \notin returnedInRun

\* C39: next() never returns a task that was already pending when the
\* iterator was created, it does not end the workflow while such a task is
\* left, and it still returns a ready task whenever there is one.
C39_PendingAtStartNeverReturned ==
  [][last'.op = "next" =>
       /\ \A t \in Range(nodes) :
            PendingBefore(t) =>
              /\ last'.arg # t
              /\ last'.ret # "StopIteration"
              /\ t \in Range(tasks')
              /\ obj'[t] = obj[t]
       /\ (itActive /\ \E i \in DOMAIN tasks : is_ready(Graph, tasks[i])) =>
            (last'.arg \in Range(tasks) /\ is_ready(Graph, last'.arg))]_vars

\* C39 witness: every other task is terminal and next() returns no task
\* and no end of the workflow, the task pending from before still remaining.
C39_Witness ==
  /\ last = Op("next", "None", "ok")
  /\ returnedInRun # {}
  /\ \E t \in Range(nodes) :
       /\ PendingBefore(t)
       /\ t \in Range(tasks)
       /\ \A u \in Range(nodes) \ {t} : is_done(obj[u])

\* The command line args gives value under flag.
Carries(args, flag, value) ==
  \E i \in 1..(Len(args) - 1) : args[i] = flag /\ args[i + 1] = value

\* C40: when sbatch() is given a stdout path and a stderr path, its command
\* line has the stdout path under -o and the stderr path under -e.
C40_StderrUnderItsOwnFlag ==
  (last.op = "sbatch" /\ sbatch_kwargs.stdout # "None" /\ sbatch_kwargs.stderr # "None") =>
    /\ Carries(sbatch_args, "-o", sbatch_kwargs.stdout)
    /\ Carries(sbatch_args, "-e", sbatch_kwargs.stderr)

====
